---- MODULE Spec2Model ----
(***************************************************************************)
(* A model of dusted-go/logging: the OpenTelemetry handler (otel.Handler), *)
(* which injects trace attributes into slog records; the pretty console    *)
(* handler (pretty.Handler and the older slogging.Handler), which          *)
(* round-trips a record through an inner JSON handler and a shared buffer; *)
(* the HTTP middlewares (httplogger.RequestScoped, stackdriver.Logging)    *)
(* with the logger they publish in the request's context; and the          *)
(* stackdriver handler with its severity names.                            *)
(***************************************************************************)
EXTENDS Integers, Sequences, FiniteSets, TLC

(***************************************************************************)
(* Bounds of the model.                                                    *)
(***************************************************************************)
\* the longest chain of WithGroup / WithAttrs derivations from Wrap(base)
MaxDerive == 3

\* the most handlers of one pretty derivation family, the root included
MaxHandlers == 2

VARIABLES
    oh,      \* otel: the handler value at the end of the derivation chain
    oops,    \* otel: the WithGroup / WithAttrs calls that produced oh, in order
    ocall,   \* otel: the last Handle call and what reached the output
    family,  \* otel: the handlers derived from one root, each with its derivation path
    heap,    \* otel: the arrays behind the preAttrs and groups slices of the family
    variant, \* pretty: the package of the family, "pretty" or "slogging"
    procs,   \* pretty: the goroutines that log through the family
    hs,      \* pretty: the handlers of the family, the root first
    mutex,   \* pretty: who holds each sync.Mutex, or "free"
    buffer,  \* pretty: the content of each bytes.Buffer: the writes it holds
    pc,      \* pretty: where each goroutine is in Handle
    call,    \* pretty: the locals of each goroutine's Handle call
    failed,  \* pretty: whether some Handle call has returned an error
    options, \* pretty: the options of the NewHandler call, where the root is built from options
    cfg,     \* httplogger: the Config the middleware was built with
    served,  \* httplogger: the request served last and what it produced, if any
    generated, \* httplogger: the identifiers uuid.NewString has returned
    handler, \* middlewares: the handler variable the middleware's closure captured
    reqs,    \* middlewares: the locals of each request goroutine
    arg,     \* the arguments of the function call made last
    res      \* what that call returned

otelVars == <<oh, oops, ocall, family, heap>>

prettyVars == <<variant, procs, hs, mutex, buffer, pc, call, failed, options>>

httpVars == <<cfg, served, generated, handler, reqs, arg, res>>

vars == <<oh, oops, ocall, family, heap, variant, procs, hs, mutex, buffer, pc, call, failed, options,
          cfg, served, generated, handler, reqs, arg, res>>

(***************************************************************************)
(* slog attributes.  A leaf carries a value, a group carries attributes.   *)
(***************************************************************************)
String(k, v) == [key |-> k, leaf |-> TRUE, val |-> v, attrs |-> <<>>]

Group(k, as) == [key |-> k, leaf |-> FALSE, val |-> "", attrs |-> as]

\* group names callers pass to WithGroup; "" is the name slog ignores
GroupNames == {"", "g1", "g2"}

\* attribute lists callers bind with WithAttrs
BoundAttrs == {<<>>, <<String("b1", "x")>>, <<String("b2", "y")>>}

\* attribute lists callers pass on a log call
CallAttrs == {<<>>, <<String("k1", "v1")>>, <<String("k2", "v2"), String("k1", "v1")>>}

BoundKeys == {"b1", "b2"}

CallKeys == {"k1", "k2"}

TraceKeys == {"trace_id", "span_id"}

(***************************************************************************)
(* The span context of a call's context.  trace.SpanFromContext returns a  *)
(* no-op span with the zero span context when the context carries none.    *)
(***************************************************************************)
ZeroID == "0000"

NoSpan == [has |-> FALSE, tid |-> ZeroID, sid |-> ZeroID]

Contexts == {NoSpan} \cup [has : {TRUE}, tid : {ZeroID, "4bf9"}, sid : {ZeroID, "00f0"}]

\* SpanContext.IsValid: a non-zero trace id and a non-zero span id
IsValid(sc) == sc.tid # ZeroID /\ sc.sid # ZeroID

(***************************************************************************)
(* The wrapped slog handler (the tests wrap slog.NewTextHandler).  It      *)
(* keeps the groups opened on it and the attributes bound to it, and       *)
(* writes each attribute under the path of groups that encloses it.        *)
(***************************************************************************)
RECURSIVE Flatten(_, _)
Flatten(path, as) ==
    IF as = <<>> THEN <<>>
    ELSE LET a == Head(as)
             first == IF a.leaf
                        THEN <<[path |-> path, key |-> a.key, val |-> a.val]>>
                      ELSE IF a.key = ""
                        THEN Flatten(path, a.attrs)
                      ELSE Flatten(Append(path, a.key), a.attrs)
         IN first \o Flatten(path, Tail(as))

BaseHandler == [groups |-> <<>>, pre |-> <<>>]

BaseWithGroup(b, name) ==
    IF name = "" THEN b ELSE [b EXCEPT !.groups = Append(@, name)]

BaseWithAttrs(b, as) == [b EXCEPT !.pre = @ \o Flatten(b.groups, as)]

BaseHandle(b, recAttrs) == b.pre \o Flatten(b.groups, recAttrs)

(***************************************************************************)
(* otel.Handler                                                            *)
(***************************************************************************)
Wrap(base) == [handler |-> base, preAttrs |-> <<>>, groups |-> <<>>]

\* the groups rebuilt around the call's attributes, from the inside out
RECURSIVE NestGroups(_, _)
NestGroups(groups, current) ==
    IF groups = <<>> THEN current
    ELSE NestGroups(SubSeq(groups, 1, Len(groups) - 1),
                    Group(groups[Len(groups)], <<current>>))

OtelGroup(sc) ==
    Group("otel", <<String("trace_id", sc.tid), String("span_id", sc.sid)>>)

\* the group chain wrapped around the call's attributes, or the attributes
\* themselves when no group is active
Regrouped(h, recAttrs) ==
    IF Len(h.groups) > 0
      THEN <<NestGroups(SubSeq(h.groups, 1, Len(h.groups) - 1),
                        Group(h.groups[Len(h.groups)], recAttrs))>>
      ELSE recAttrs

\* a Handle that adds the otel group for any span, valid or not
NewRecordAttrsAnySpan(h, sc, recAttrs) ==
    (IF sc.has THEN <<OtelGroup(sc)>> ELSE <<>>) \o h.preAttrs \o Regrouped(h, recAttrs)

\* the attributes of newRecord, in the order Handle adds them
NewRecordAttrs(h, sc, recAttrs) ==
    (IF IsValid(sc) THEN <<OtelGroup(sc)>> ELSE <<>>)
    \o h.preAttrs
    \o Regrouped(h, recAttrs)

\* what Handle makes the wrapped handler write
HandleOutput(h, sc, recAttrs) ==
    IF ~IsValid(sc) /\ Len(h.preAttrs) = 0
      THEN BaseHandle(h.handler, recAttrs)
      ELSE BaseHandle(h.handler, NewRecordAttrs(h, sc, recAttrs))

WithAttrsResult(h, as) ==
    IF Len(as) = 0 THEN h
    ELSE IF Len(h.groups) = 0
      THEN [handler |-> h.handler, preAttrs |-> h.preAttrs \o as, groups |-> h.groups]
    ELSE [handler |-> BaseWithAttrs(h.handler, as),
          preAttrs |-> h.preAttrs, groups |-> h.groups]

WithGroupResult(h, name) ==
    IF name = "" THEN h
    ELSE [handler |-> IF Len(h.groups) = 0 THEN h.handler
                      ELSE BaseWithGroup(h.handler, name),
          preAttrs |-> h.preAttrs,
          groups |-> Append(h.groups, name)]

NoCall == [done |-> FALSE, sc |-> NoSpan, attrs |-> <<>>, ops |-> <<>>,
           h |-> Wrap(BaseHandler), out |-> <<>>]

\* the middleware has served no request
HttpStart ==
    /\ cfg = [AddTrace |-> FALSE, LogRequest |-> FALSE, ExcludeHeaders |-> <<>>]
    /\ served = <<>>
    /\ generated = <<>>
    /\ handler = BaseHandler
    /\ reqs = <<>>
    /\ arg = <<>>
    /\ res = <<>>

OtelStart ==
    /\ oh = Wrap(BaseHandler)
    /\ oops = <<>>
    /\ ocall = NoCall
    /\ family = <<>>
    /\ heap = <<>>

OtelWithGroup(name) ==
    /\ Len(oops) < MaxDerive
    /\ oh' = WithGroupResult(oh, name)
    /\ oops' = IF name = "" THEN oops ELSE Append(oops, [op |-> "group", name |-> name, attrs |-> <<>>])
    /\ UNCHANGED <<ocall, family, heap, prettyVars, httpVars>>

OtelWithAttrs(as) ==
    /\ Len(oops) < MaxDerive
    /\ oh' = WithAttrsResult(oh, as)
    /\ oops' = IF as = <<>> THEN oops ELSE Append(oops, [op |-> "attrs", name |-> "", attrs |-> as])
    /\ UNCHANGED <<ocall, family, heap, prettyVars, httpVars>>

OtelHandle(sc, recAttrs) ==
    /\ ocall' = [done |-> TRUE, sc |-> sc, attrs |-> recAttrs, ops |-> oops,
                 h |-> oh, out |-> HandleOutput(oh, sc, recAttrs)]
    /\ UNCHANGED <<oh, oops, family, heap, prettyVars, httpVars>>

OtelNext ==
    \/ \E name \in GroupNames : OtelWithGroup(name)
    \/ \E as \in BoundAttrs : OtelWithAttrs(as)
    \/ \E sc \in Contexts, as \in CallAttrs : OtelHandle(sc, as)

(***************************************************************************)
(* The pretty handler: pretty.Handler, and slogging.Handler, which differs *)
(* in how Handle assembles the line.                                       *)
(***************************************************************************)
lightGray == 37

cyan == 36

lightBlue == 94

lightYellow == 93

lightRed == 91

lightMagenta == 95

darkGray == 90

white == 97

LevelDebug == -4

LevelInfo == 0

LevelWarn == 4

LevelError == 8

TimeKey == "time"

LevelKey == "level"

MessageKey == "msg"

\* a piece of output text: texts are sequences of these
Tok(t, v) == [t |-> t, v |-> v, n |-> 0, m |-> <<>>]

SP == Tok("text", " ")

NL == Tok("text", "\n")

\* colorizer: the escape sequence of the colour, the text, the reset sequence
colorizer(code, v) == <<[t |-> "esc", v |-> "", n |-> code, m |-> <<>>]>> \o v \o <<Tok("reset", "")>>

Colorize(h, code, v) == IF h.colorize THEN colorizer(code, v) ELSE v

\* a string as text: the empty string has no bytes
Text(v) == IF v = "" THEN <<>> ELSE <<Tok("text", v)>>

\* the field-rewrite hooks of the model: nil, or a function that maps the
\* keys in drops to the empty attribute and leaves every other attribute
NilHook == [nil |-> TRUE, drops |-> {}]

Hook(drops) == [nil |-> FALSE, drops |-> drops]

\* whether the attribute with this key survives h.replaceAttrFunc
Kept(hook, key) == hook.nil \/ key \notin hook.drops

\* a colouring that gives every level the colour of the nearest named level
\* at or below it
BandColorNearestLower(level) ==
    IF level < LevelInfo THEN lightGray
    ELSE IF level < LevelWarn THEN cyan
    ELSE IF level < LevelError THEN lightYellow
    ELSE IF level = LevelError THEN lightRed
    ELSE lightMagenta

\* the colour band of a level
BandColor(level) ==
    IF level <= LevelDebug THEN lightGray
    ELSE IF level <= LevelInfo THEN cyan
    ELSE IF level < LevelWarn THEN lightBlue
    ELSE IF level < LevelError THEN lightYellow
    ELSE IF level = LevelError THEN lightRed
    ELSE lightMagenta

\* slog.Level.String followed by the colon: a name and an offset
LevelText(level) ==
    LET named == IF level < LevelInfo THEN <<"DEBUG", level - LevelDebug>>
                 ELSE IF level < LevelWarn THEN <<"INFO", level - LevelInfo>>
                 ELSE IF level < LevelError THEN <<"WARN", level - LevelWarn>>
                 ELSE <<"ERROR", level - LevelError>>
    IN <<[t |-> "level", v |-> named[1], n |-> named[2], m |-> <<>>]>>

LevelPiece(h, r) ==
    IF Kept(h.replaceAttrFunc, LevelKey)
      THEN Colorize(h, BandColor(r.level), LevelText(r.level))
      ELSE <<>>

TimestampPiece(h, r) ==
    IF Kept(h.replaceAttrFunc, TimeKey)
      THEN Colorize(h, lightGray, <<Tok("time", "[15:04:05.000]")>>)
      ELSE <<>>

MessagePiece(h, r) ==
    IF Kept(h.replaceAttrFunc, MessageKey)
      THEN Colorize(h, white, Text(r.msg))
      ELSE <<>>

(***************************************************************************)
(* The inner slog.JSONHandler, built with ReplaceAttr =                    *)
(* suppressDefaults(config.ReplaceAttr), writing to the shared buffer.     *)
(***************************************************************************)
\* suppressDefaults(next) on a non-group attribute: TRUE when it is kept
SuppressDefaultsKeeps(next, key) ==
    IF key = TimeKey \/ key = LevelKey \/ key = MessageKey THEN FALSE
    ELSE IF next.nil THEN TRUE
    ELSE Kept(next, key)

\* the attributes as the JSON handler writes them: ReplaceAttr applied to
\* every non-group attribute, empty groups left out, unnamed groups inlined
RECURSIVE Clean(_, _)
Clean(next, as) ==
    IF as = <<>> THEN <<>>
    ELSE LET a == Head(as)
             sub == Clean(next, a.attrs)
             first == IF a.leaf
                        THEN IF SuppressDefaultsKeeps(next, a.key) THEN <<a>> ELSE <<>>
                      ELSE IF sub = <<>> THEN <<>>
                      ELSE IF a.key = "" THEN sub
                      ELSE <<Group(a.key, sub)>>
         IN first \o Clean(next, Tail(as))

AtDepth(pre, d) ==
    LET IsAt(e) == Len(e.path) = d
        at == SelectSeq(pre, IsAt)
    IN [i \in 1..Len(at) |-> at[i].attr]

\* the members of the JSON object from group depth d inwards
RECURSIVE DocAt(_, _, _, _)
DocAt(inner, next, d, recAttrs) ==
    IF d = Len(inner.groups)
      THEN Clean(next, AtDepth(inner.pre, d) \o recAttrs)
      ELSE LET sub == DocAt(inner, next, d + 1, recAttrs)
           IN Clean(next, AtDepth(inner.pre, d))
                \o (IF sub = <<>> THEN <<>> ELSE <<Group(inner.groups[d + 1], sub)>>)

\* the JSON object the inner handler writes for a record: the three
\* built-in fields are suppressed, the bound and the call's attributes follow
Doc(h, recAttrs) == DocAt(h.handler, h.replaceAttrFunc, 0, recAttrs)

InnerWithAttrs(inner, as) ==
    [inner EXCEPT !.pre = @ \o [i \in 1..Len(as) |-> [path |-> inner.groups, attr |-> as[i]]]]

InnerWithGroup(inner, name) ==
    IF name = "" THEN inner ELSE [inner EXCEPT !.groups = Append(@, name)]

(***************************************************************************)
(* json.Unmarshal into map[string]any and json.MarshalIndent /             *)
(* yaml.Marshal of the map.  A Go map holds one value per key, and both    *)
(* encoders write a map's keys in sorted order.                            *)
(***************************************************************************)
\* the keys of the model in byte order
KeyOrder == <<"a", "b", "g", "level", "msg", "time">>

RECURSIVE Unmarshal(_)
Unmarshal(members) ==
    IF members = <<>> THEN <<>>
    ELSE LET before == Unmarshal(SubSeq(members, 1, Len(members) - 1))
             last == members[Len(members)]
             value == [leaf |-> last.leaf, val |-> last.val,
                       sub |-> IF last.leaf THEN <<>> ELSE Unmarshal(last.attrs)]
         IN [k \in DOMAIN before \cup {last.key} |->
                IF k = last.key THEN value ELSE before[k]]

RECURSIVE MarshalFrom(_, _)
MarshalFrom(attrs, i) ==
    IF i > Len(KeyOrder) THEN <<>>
    ELSE LET k == KeyOrder[i]
         IN (IF k \in DOMAIN attrs
               THEN <<[key |-> k, leaf |-> attrs[k].leaf, val |-> attrs[k].val,
                       attrs |-> MarshalFrom(attrs[k].sub, 1)]>>
               ELSE <<>>)
            \o MarshalFrom(attrs, i + 1)

Marshal(attrs) == MarshalFrom(attrs, 1)

(***************************************************************************)
(* The handlers of a family and the goroutines that log through them.      *)
(***************************************************************************)
Procs == {"p1", "p2"}

\* NewHandler / New: a root handler with its own buffer and mutex
NewHandler(writer, colorize, outputEmptyAttrs, encoder, replaceAttr) ==
    [handler |-> [w |-> 1, groups |-> <<>>, pre |-> <<>>],
     replaceAttrFunc |-> replaceAttr,
     buffer |-> 1,
     mutex |-> 1,
     writer |-> writer,
     colorize |-> colorize,
     outputEmptyAttrs |-> outputEmptyAttrs,
     encoder |-> encoder]

\* a derived handler that is built without the receiver's
\* output-empty-attrs flag
WithAttrsDroppingEmptyAttrs(h, as) ==
    [handler |-> InnerWithAttrs(h.handler, as),
     buffer |-> h.buffer,
     encoder |-> h.encoder,
     replaceAttrFunc |-> h.replaceAttrFunc,
     mutex |-> h.mutex,
     writer |-> h.writer,
     colorize |-> h.colorize,
     outputEmptyAttrs |-> FALSE]

WithAttrs(h, as) ==
    [handler |-> InnerWithAttrs(h.handler, as),
     buffer |-> h.buffer,
     encoder |-> h.encoder,
     replaceAttrFunc |-> h.replaceAttrFunc,
     mutex |-> h.mutex,
     writer |-> h.writer,
     colorize |-> h.colorize,
     outputEmptyAttrs |-> h.outputEmptyAttrs]

WithGroup(h, name) ==
    [handler |-> InnerWithGroup(h.handler, name),
     buffer |-> h.buffer,
     encoder |-> h.encoder,
     replaceAttrFunc |-> h.replaceAttrFunc,
     mutex |-> h.mutex,
     writer |-> h.writer,
     colorize |-> h.colorize,
     outputEmptyAttrs |-> h.outputEmptyAttrs]

\* the records callers log
Record(level, msg, as) == [level |-> level, msg |-> msg, attrs |-> as]

PrettyAttrs ==
    {<<>>,
     <<String("b", "1"), String("a", "2")>>,
     <<String("a", "1"), String("a", "2")>>,
     <<String("msg", "3"), String("a", "1")>>}

Records ==
    {Record(LevelInfo, m, as) : m \in {"", "hello"}, as \in PrettyAttrs}
    \cup {Record(LevelError, "hello", <<>>)}

NoRecord == Record(LevelInfo, "", <<>>)

Idle == [h |-> 1, rec |-> NoRecord, fault |-> "", attrs |-> <<>>, err |-> "",
         out |-> <<>>, written |-> <<>>]

PrettyStart(v, ps, roots) ==
    /\ variant = v
    /\ procs = ps
    /\ \E root \in roots : hs = <<root>>
    /\ mutex = [m \in {1, 2} |-> "free"]
    /\ buffer = [b \in {1, 2} |-> <<>>]
    /\ pc = [p \in Procs |-> "idle"]
    /\ call = [p \in Procs |-> Idle]
    /\ failed = FALSE

PrettyWithAttrs(i, as) ==
    /\ Len(hs) < MaxHandlers
    /\ hs' = Append(hs, WithAttrs(hs[i], as))
    /\ UNCHANGED <<variant, procs, mutex, buffer, pc, call, failed, otelVars, options, httpVars>>

PrettyWithGroup(i, name) ==
    /\ Len(hs) < MaxHandlers
    /\ hs' = Append(hs, WithGroup(hs[i], name))
    /\ UNCHANGED <<variant, procs, mutex, buffer, pc, call, failed, otelVars, options, httpVars>>

\* Handle is entered: the three pieces need no shared state
HandleBegin(p, i, r) ==
    /\ pc[p] = "idle"
    /\ call' = [call EXCEPT ![p] = [Idle EXCEPT !.h = i, !.rec = r]]
    /\ pc' = [pc EXCEPT ![p] = "lock"]
    /\ UNCHANGED <<variant, procs, hs, mutex, buffer, failed, otelVars, options, httpVars>>

\* a goroutine that ignores the mutex
CanLockAlways(holder) == TRUE

\* sync.Mutex.Lock returns once nobody holds the mutex
CanLock(holder) == holder = "free"

\* computeAttrs: h.mutex.Lock()
Lock(p) ==
    LET h == hs[call[p].h] IN
    /\ pc[p] = "lock"
    /\ CanLock(mutex[h.mutex])
    /\ mutex' = [mutex EXCEPT ![h.mutex] = p]
    /\ pc' = [pc EXCEPT ![p] = "inner"]
    /\ UNCHANGED <<variant, procs, hs, buffer, call, failed, otelVars, options, httpVars>>

\* computeAttrs: h.handler.Handle(ctx, r).  The inner handler writes the
\* JSON object to its buffer in one Write; the error branches of the code
\* are taken when it reports an error or writes bytes that do not parse.
InnerHandle(p) ==
    LET h == hs[call[p].h]
        doc == Doc(h, call[p].rec.attrs)
    IN
    /\ pc[p] = "inner"
    /\ \/ /\ buffer' = [buffer EXCEPT ![h.handler.w] = Append(@, [ok |-> TRUE, members |-> doc])]
          /\ pc' = [pc EXCEPT ![p] = "unmarshal"]
          /\ UNCHANGED call
       \/ /\ buffer' = [buffer EXCEPT ![h.handler.w] = Append(@, [ok |-> FALSE, members |-> doc])]
          /\ pc' = [pc EXCEPT ![p] = "unmarshal"]
          /\ call' = [call EXCEPT ![p].fault = "malformed"]
       \/ /\ \E wrote \in BOOLEAN :
                buffer' = [buffer EXCEPT ![h.handler.w] =
                              IF wrote THEN Append(@, [ok |-> FALSE, members |-> <<>>]) ELSE @]
          /\ pc' = [pc EXCEPT ![p] = "deferred"]
          /\ call' = [call EXCEPT ![p].fault = "inner", ![p].err = "inner"]
    /\ UNCHANGED <<variant, procs, hs, mutex, failed, otelVars, options, httpVars>>

\* computeAttrs: json.Unmarshal(h.buffer.Bytes(), &attrs), which accepts
\* exactly one well-formed JSON value
UnmarshalBuffer(p) ==
    LET h == hs[call[p].h]
        bytes == buffer[h.buffer]
    IN
    /\ pc[p] = "unmarshal"
    /\ call' = IF Len(bytes) = 1 /\ bytes[1].ok
                 THEN [call EXCEPT ![p].attrs = Unmarshal(bytes[1].members)]
                 ELSE [call EXCEPT ![p].err = "decode"]
    /\ pc' = [pc EXCEPT ![p] = "deferred"]
    /\ UNCHANGED <<variant, procs, hs, mutex, buffer, failed, otelVars, options, httpVars>>

\* a deferred function that resets the buffer only on success
BufferAfterResetOnSuccess(bytes, err) == IF err = "" THEN <<>> ELSE bytes

\* the deferred h.buffer.Reset()
BufferAfterReset(bytes, err) == <<>>

\* an unlock that is skipped when computeAttrs returns an error
MutexAfterUnlockOnSuccess(holder, err) == IF err = "" THEN "free" ELSE holder

\* the deferred h.mutex.Unlock()
MutexAfterUnlock(holder, err) == "free"

\* computeAttrs returns: the deferred function resets the buffer and unlocks
\* the mutex, and Handle returns the error if there is one
Deferred(p) ==
    LET h == hs[call[p].h] IN
    /\ pc[p] = "deferred"
    /\ buffer' = [buffer EXCEPT ![h.buffer] = BufferAfterReset(@, call[p].err)]
    /\ mutex' = [mutex EXCEPT ![h.mutex] = MutexAfterUnlock(@, call[p].err)]
    /\ pc' = [pc EXCEPT ![p] = IF call[p].err = "" THEN "marshal" ELSE "done"]
    /\ failed' = (failed \/ call[p].err # "")
    /\ UNCHANGED <<variant, procs, hs, call, otelVars, options, httpVars>>

JSON == "json"

YAML == "yaml"

\* a condition that ignores the output-empty-attrs option
NeedsBlockNonEmptyOnly(h, attrs) == DOMAIN attrs # {}

\* Handle: h.outputEmptyAttrs || len(attrs) > 0
NeedsBlock(h, attrs) == h.outputEmptyAttrs \/ DOMAIN attrs # {}

\* attrsAsBytes for a supported encoder: json.MarshalIndent, or a newline
\* and yaml.Marshal
AttrsAsBytes(h, attrs) ==
    IF h.encoder = JSON
      THEN <<[t |-> "json", v |-> "", n |-> 0, m |-> Marshal(attrs)]>>
      ELSE <<NL, [t |-> "yaml", v |-> "", n |-> 0, m |-> Marshal(attrs)]>>

\* strings.Join(parts, " ")
RECURSIVE Join(_)
Join(parts) ==
    IF parts = <<>> THEN <<>>
    ELSE IF Len(parts) = 1 THEN parts[1]
    ELSE parts[1] \o <<SP>> \o Join(Tail(parts))

\* pretty.Handler.Handle: the non-empty pieces, joined
OutPretty(timestamp, level, msg, block) ==
    LET NonEmpty(piece) == Len(piece) > 0
    IN Join(SelectSeq(<<timestamp, level, msg, block>>, NonEmpty))

\* slogging.Handler.Handle: each of the first three pieces is followed by
\* a space
OutSlogging(timestamp, level, msg, block) ==
    (IF Len(timestamp) > 0 THEN timestamp \o <<SP>> ELSE <<>>)
    \o (IF Len(level) > 0 THEN level \o <<SP>> ELSE <<>>)
    \o (IF Len(msg) > 0 THEN msg \o <<SP>> ELSE <<>>)
    \o block

\* the line before its newline, from the record and attrsAsBytes
Out(v, h, r, attrsAsBytes) ==
    LET block == IF Len(attrsAsBytes) > 0 THEN Colorize(h, darkGray, attrsAsBytes) ELSE <<>>
    IN IF v = "pretty"
         THEN OutPretty(TimestampPiece(h, r), LevelPiece(h, r), MessagePiece(h, r), block)
         ELSE OutSlogging(TimestampPiece(h, r), LevelPiece(h, r), MessagePiece(h, r), block)

\* Handle, from the return of computeAttrs to the assembled line.  The
\* re-encoding of the map may report an error.
MarshalAttrs(p) ==
    LET h == hs[call[p].h]
        attrs == call[p].attrs
        fail(e) == /\ call' = [call EXCEPT ![p].err = e]
                   /\ pc' = [pc EXCEPT ![p] = "done"]
                   /\ failed' = TRUE
        continue(bytes) ==
                   /\ call' = [call EXCEPT ![p].out = Out(variant, h, call[p].rec, bytes)]
                   /\ pc' = [pc EXCEPT ![p] = "write"]
                   /\ UNCHANGED failed
    IN
    /\ pc[p] = "marshal"
    /\ IF NeedsBlock(h, attrs)
         THEN IF h.encoder \in {JSON, YAML}
                THEN \/ continue(AttrsAsBytes(h, attrs))
                     \/ fail("marshal")
                ELSE fail("unsupported")
         ELSE continue(<<>>)
    /\ UNCHANGED <<variant, procs, hs, mutex, buffer, otelVars, options, httpVars>>

\* a write of the line without its newline
WrittenTextNoNewline(out) == out

\* io.WriteString(h.writer, out+"\n")
WrittenText(out) == Append(out, NL)

\* a handler that writes whether or not it has a writer
HasWriterAlways(h) == TRUE

\* Handle: h.writer != nil
HasWriter(h) == h.writer # "nil"

\* Handle: io.WriteString(h.writer, ...) is called if there is a writer; it
\* is called after computeAttrs has released the mutex
WriteOut(p) ==
    LET h == hs[call[p].h] IN
    /\ pc[p] = "write"
    /\ pc' = [pc EXCEPT ![p] = IF HasWriter(h) THEN "writing" ELSE "done"]
    /\ UNCHANGED <<variant, procs, hs, mutex, buffer, call, failed, otelVars, options, httpVars>>

\* Handle: io.WriteString returns, with an error or without, and Handle
\* returns
WriteReturns(p) ==
    /\ pc[p] = "writing"
    /\ \/ /\ call' = [call EXCEPT ![p].written = Append(@, WrittenText(call[p].out))]
          /\ UNCHANGED failed
       \/ /\ call' = [call EXCEPT ![p].written = Append(@, WrittenText(call[p].out)),
                                  ![p].err = "write"]
          /\ failed' = TRUE
    /\ pc' = [pc EXCEPT ![p] = "done"]
    /\ UNCHANGED <<variant, procs, hs, mutex, buffer, otelVars, options, httpVars>>

\* the caller goes on after Handle has returned
Return(p) ==
    /\ pc[p] = "done"
    /\ pc' = [pc EXCEPT ![p] = "idle"]
    /\ call' = [call EXCEPT ![p] = Idle]
    /\ UNCHANGED <<variant, procs, hs, mutex, buffer, failed, otelVars, options, httpVars>>

\* what callers bind and the groups they open on the pretty handlers
PrettyBound == {<<String("g", "0")>>}

PrettyGroups == {"g"}

PrettyNext ==
    \/ \E i \in 1..Len(hs), as \in PrettyBound : PrettyWithAttrs(i, as)
    \/ \E i \in 1..Len(hs), name \in PrettyGroups : PrettyWithGroup(i, name)
    \/ \E p \in procs, i \in 1..Len(hs), r \in Records : HandleBegin(p, i, r)
    \/ \E p \in procs : Lock(p)
    \/ \E p \in procs : InnerHandle(p)
    \/ \E p \in procs : UnmarshalBuffer(p)
    \/ \E p \in procs : Deferred(p)
    \/ \E p \in procs : MarshalAttrs(p)
    \/ \E p \in procs : WriteOut(p)
    \/ \E p \in procs : WriteReturns(p)
    \/ \E p \in procs : Return(p)

(***************************************************************************)
(* The options of pretty.NewHandler.  An option is a call of WithWriter,   *)
(* WithColor, WithOutputEmptyAttrs or WithEncoder with its arguments, or   *)
(* nil.                                                                    *)
(***************************************************************************)
WithWriter(writer) == [name |-> "WithWriter", x |-> <<>>, arg |-> writer]

WithColor(x) == [name |-> "WithColor", x |-> x, arg |-> ""]

WithOutputEmptyAttrs(x) == [name |-> "WithOutputEmptyAttrs", x |-> x, arg |-> ""]

WithEncoder(e) == [name |-> "WithEncoder", x |-> <<>>, arg |-> e]

NilOption == [name |-> "nil", x |-> <<>>, arg |-> ""]

\* NewHandler: the configuration before the options are applied
DefaultConfig ==
    [writer |-> "discard", encoder |-> JSON, colorize |-> FALSE, outputEmptyAttrs |-> FALSE]

\* for i := range x { flag = x[i] }
RangeAssign(flag, x) == IF x = <<>> THEN flag ELSE x[Len(x)]

\* opt(&config)
ApplyOption(config, opt) ==
    CASE opt.name = "WithWriter" -> [config EXCEPT !.writer = opt.arg]
      [] opt.name = "WithColor" -> [config EXCEPT !.colorize = RangeAssign(@, opt.x)]
      [] opt.name = "WithOutputEmptyAttrs" ->
             [config EXCEPT !.outputEmptyAttrs = RangeAssign(@, opt.x)]
      [] opt.name = "WithEncoder" -> [config EXCEPT !.encoder = opt.arg]

\* for _, opt := range options { if opt != nil { opt(&config) } }
RECURSIVE ApplyOptions(_, _)
ApplyOptions(config, opts) ==
    IF opts = <<>> THEN config
    ELSE ApplyOptions(IF Head(opts) # NilOption THEN ApplyOption(config, Head(opts)) ELSE config,
                      Tail(opts))

\* pretty.NewHandler(options...)
NewHandlerWith(opts) ==
    LET config == ApplyOptions(DefaultConfig, opts)
    IN NewHandler(config.writer, config.colorize, config.outputEmptyAttrs, config.encoder,
                  NilHook)

\* the most options of one NewHandler call
MaxOptions == 2

\* the options callers pass
OptionCalls ==
    {WithWriter("w"), WithWriter("nil"), WithEncoder(YAML), NilOption,
     WithColor(<<>>), WithColor(<<TRUE>>), WithColor(<<FALSE>>),
     WithOutputEmptyAttrs(<<>>), WithOutputEmptyAttrs(<<FALSE>>)}

OptionLists == UNION {[1..n -> OptionCalls] : n \in 0..MaxOptions}

Hooks == {NilHook, Hook({TimeKey}), Hook({LevelKey}), Hook({MessageKey}),
          Hook({TimeKey, LevelKey, MessageKey})}

\* pretty.WithEncoder panics on an encoder other than JSON and YAML;
\* slogging.WithEncoder stores whatever it is given
Encoders(v) == IF v = "pretty" THEN {JSON, YAML} ELSE {JSON, YAML, "xml"}

Roots(v) ==
    {NewHandler(w, c, e, enc, hook) :
        w \in {"nil", "w"}, c \in BOOLEAN, e \in BOOLEAN, enc \in Encoders(v), hook \in Hooks}

\* the root of the concurrency runs
PlainRoot == NewHandler("w", FALSE, FALSE, JSON, NilHook)

OtelInit == OtelStart /\ HttpStart /\ options = <<>> /\ PrettyStart("pretty", {}, {PlainRoot})

SpecOtel == OtelInit /\ [][OtelNext]_vars

\* two goroutines log through one family
PrettyInit == OtelStart /\ HttpStart /\ options = <<>> /\ PrettyStart("pretty", Procs, {PlainRoot})

SpecPretty == PrettyInit /\ [][PrettyNext]_vars

\* one goroutine logs through a family of either package, built with any
\* options
LineInit ==
    /\ OtelStart /\ HttpStart /\ options = <<>>
    /\ \E v \in {"pretty", "slogging"} : PrettyStart(v, {"p1"}, Roots(v))

SpecLine == LineInit /\ [][PrettyNext]_vars

\* how far below debug and above error the levels of the level runs reach
MaxLevelOffset == 2

\* records of every level, custom levels included
LevelRecords ==
    {Record(l, "hello", <<>>) : l \in (LevelDebug - MaxLevelOffset)..(LevelError + MaxLevelOffset)}

LevelNext ==
    \/ \E i \in 1..Len(hs), as \in PrettyBound : PrettyWithAttrs(i, as)
    \/ \E i \in 1..Len(hs), name \in PrettyGroups : PrettyWithGroup(i, name)
    \/ \E p \in procs, i \in 1..Len(hs), r \in LevelRecords : HandleBegin(p, i, r)
    \/ \E p \in procs : Lock(p)
    \/ \E p \in procs : InnerHandle(p)
    \/ \E p \in procs : UnmarshalBuffer(p)
    \/ \E p \in procs : Deferred(p)
    \/ \E p \in procs : MarshalAttrs(p)
    \/ \E p \in procs : WriteOut(p)
    \/ \E p \in procs : WriteReturns(p)
    \/ \E p \in procs : Return(p)

\* one goroutine logs records of every level through a family of either
\* package, with and without colour and with and without the level field
LevelInit ==
    /\ OtelStart /\ HttpStart /\ options = <<>>
    /\ \E v \in {"pretty", "slogging"} :
          PrettyStart(v, {"p1"},
                      {NewHandler("w", c, TRUE, JSON, hook) :
                          c \in BOOLEAN, hook \in {NilHook, Hook({LevelKey})}})

SpecLevel == LevelInit /\ [][LevelNext]_vars

\* the record of the scheduling runs
FairRecords == {Record(LevelInfo, "hello", <<String("a", "1")>>)}

FairNext ==
    \/ \E i \in 1..Len(hs), as \in PrettyBound : PrettyWithAttrs(i, as)
    \/ \E i \in 1..Len(hs), name \in PrettyGroups : PrettyWithGroup(i, name)
    \/ \E p \in procs, i \in 1..Len(hs), r \in FairRecords : HandleBegin(p, i, r)
    \/ \E p \in procs : Lock(p)
    \/ \E p \in procs : InnerHandle(p)
    \/ \E p \in procs : UnmarshalBuffer(p)
    \/ \E p \in procs : Deferred(p)
    \/ \E p \in procs : MarshalAttrs(p)
    \/ \E p \in procs : WriteOut(p)
    \/ \E p \in procs : WriteReturns(p)
    \/ \E p \in procs : Return(p)

\* The scheduler runs every goroutine that can take a step, the inner
\* handler, the decoder, the encoder and the sink write return, and a
\* goroutine waiting in sync.Mutex.Lock gets the mutex once it has been
\* released often enough (a waiter that has waited for a millisecond is
\* handed the mutex by the next Unlock).  Callers are not obliged to log.
Fairness ==
    \A p \in Procs :
        /\ SF_vars(Lock(p))
        /\ WF_vars(InnerHandle(p) \/ UnmarshalBuffer(p) \/ Deferred(p)
                      \/ MarshalAttrs(p) \/ WriteOut(p) \/ WriteReturns(p))

\* two goroutines log through one family under a fair scheduler
SpecFair == PrettyInit /\ [][FairNext]_vars /\ Fairness

\* one goroutine logs through a pretty family whose root NewHandler built
\* from a list of options
OptionsInit ==
    /\ OtelStart /\ HttpStart
    /\ options \in OptionLists
    /\ PrettyStart("pretty", {"p1"}, {NewHandlerWith(options)})

SpecOptions == OptionsInit /\ [][PrettyNext]_vars

(***************************************************************************)
(* Strings of the HTTP layer.  A string is the sequence of its pieces: a   *)
(* separator character (space, comma, semicolon, equals sign, double       *)
(* quote, colon, bracket) is a piece of its own, and a run of other        *)
(* characters is one piece.  The empty string is the empty sequence.       *)
(***************************************************************************)
\* strings.Index and strings.LastIndex of a one-character separator,
\* counted from 1; 0 when it does not occur
Index(s, c) ==
    LET at == {i \in 1..Len(s) : s[i] = c}
    IN IF at = {} THEN 0 ELSE CHOOSE i \in at : \A j \in at : i <= j

LastIndex(s, c) ==
    LET at == {i \in 1..Len(s) : s[i] = c}
    IN IF at = {} THEN 0 ELSE CHOOSE i \in at : \A j \in at : i >= j

\* s[from:], with from counted from 1
From(s, from) == SubSeq(s, from, Len(s))

TrimSpace(s) ==
    LET at == {i \in 1..Len(s) : s[i] # " "}
    IN IF at = {} THEN <<>>
       ELSE SubSeq(s, CHOOSE i \in at : \A j \in at : i <= j,
                      CHOOSE i \in at : \A j \in at : i >= j)

RECURSIVE Split(_, _)
Split(s, sep) ==
    IF Index(s, sep) = 0 THEN <<s>>
    ELSE <<SubSeq(s, 1, Index(s, sep) - 1)>> \o Split(From(s, Index(s, sep) + 1), sep)

\* strings.Cut
Cut(s, sep) ==
    IF Index(s, sep) = 0
      THEN [before |-> s, after |-> <<>>, found |-> FALSE]
      ELSE [before |-> SubSeq(s, 1, Index(s, sep) - 1),
            after |-> From(s, Index(s, sep) + 1), found |-> TRUE]

\* strings.ToLower, on the pieces of the model that have upper-case letters
ToLower(s) ==
    LET lower(c) == CASE c \in {"For", "FOR"} -> "for"
                      [] c = "Warning" -> "warning"
                      [] c = "Proto" -> "proto"
                      [] c = "HTTP" -> "http"
                      [] c \in {"Forwarded", "FORWARDED"} -> "forwarded"
                      [] c = "X-Forwarded-For" -> "x-forwarded-for"
                      [] c = "X-Real-Ip" -> "x-real-ip"
                      [] c \in {"X-Request-Id", "X-Request-ID"} -> "x-request-id"
                      [] c = "DEBUG" -> "debug"
                      [] c = "INFO" -> "info"
                      [] c = "NOTICE" -> "notice"
                      [] c = "WARN" -> "warn"
                      [] c = "WARNING" -> "warning"
                      [] c = "ERROR" -> "error"
                      [] c = "CRITICAL" -> "critical"
                      [] c = "ALERT" -> "alert"
                      [] c = "EMERGENCY" -> "emergency"
                      [] OTHER -> c
    IN [i \in 1..Len(s) |-> lower(s[i])]

\* strconv.ParseUint(pStr, 10, 16): the number, or -1 for an error
ParseUint(pStr) ==
    IF Len(pStr) # 1 THEN -1
    ELSE CASE pStr[1] = "80" -> 80
           [] pStr[1] = "443" -> 443
           [] pStr[1] = "4711" -> 4711
           [] pStr[1] = "12345" -> 12345
           [] OTHER -> -1

\* net.SplitHostPort: host, port and whether it reports an error
NetSplitHostPort(hostport) ==
    LET i == LastIndex(hostport, ":")
        end == Index(hostport, "]")
        bad == [host |-> <<>>, port |-> <<>>, err |-> TRUE]
        good(host, j, k) ==
            IF Index(From(hostport, j), "[") > 0 \/ Index(From(hostport, k), "]") > 0
              THEN bad
              ELSE [host |-> host, port |-> From(hostport, i + 1), err |-> FALSE]
    IN IF i = 0 THEN bad
       ELSE IF hostport[1] = "["
         THEN IF end = 0 \/ end + 1 # i THEN bad
              ELSE good(SubSeq(hostport, 2, end - 1), 2, end + 1)
       ELSE IF Index(SubSeq(hostport, 1, i - 1), ":") > 0 THEN bad
       ELSE good(SubSeq(hostport, 1, i - 1), 1, 1)

(***************************************************************************)
(* httplogger: splitHostPort, firstHostPort, parseXForwardedFor and        *)
(* ParseForwarded.                                                         *)
(***************************************************************************)
splitHostPort(hostport) ==
    LET addrEnd == LastIndex(hostport, "]")
        split == NetSplitHostPort(hostport)
    IN IF Index(hostport, ":") = 0 THEN [host |-> hostport, port |-> -1]
       ELSE IF Len(hostport) > 0 /\ hostport[1] = "[" /\ addrEnd = 0
         THEN [host |-> <<>>, port |-> -1]
       ELSE IF Len(hostport) > 0 /\ hostport[1] = "[" /\ LastIndex(From(hostport, addrEnd), ":") = 0
         THEN [host |-> SubSeq(hostport, 2, addrEnd - 1), port |-> -1]
       ELSE IF split.err THEN [host |-> split.host, port |-> -1]
       ELSE [host |-> split.host, port |-> ParseUint(split.port)]

RECURSIVE firstHostPort(_)
firstHostPort(source) ==
    IF source = <<>> THEN [host |-> <<>>, port |-> 0]
    ELSE LET hp == splitHostPort(Head(source))
         IN IF hp.host # <<>> \/ hp.port > 0 \/ Len(source) = 1 THEN hp
            ELSE firstHostPort(Tail(source))

parseXForwardedFor(xForwardedFor) ==
    TrimSpace(IF Index(xForwardedFor, ",") > 0
                THEN SubSeq(xForwardedFor, 1, Index(xForwardedFor, ",") - 1)
                ELSE xForwardedFor)

ForwardedElement == [By |-> <<>>, For |-> <<>>, Host |-> <<>>, Proto |-> <<>>]

\* ParseForwarded: one parameter of an element
RECURSIVE ParseParams(_, _)
ParseParams(elem, params) ==
    IF params = <<>> THEN elem
    ELSE LET param == TrimSpace(Head(params))
             cut == Cut(param, "=")
             key == ToLower(TrimSpace(cut.before))
             trimmed == TrimSpace(cut.after)
             value == IF Len(trimmed) >= 2 /\ trimmed[1] = "\"" /\ trimmed[Len(trimmed)] = "\""
                        THEN SubSeq(trimmed, 2, Len(trimmed) - 1)
                        ELSE trimmed
             next == IF param = <<>> \/ ~cut.found THEN elem
                     ELSE IF key = <<"by">> THEN [elem EXCEPT !.By = value]
                     ELSE IF key = <<"for">> THEN [elem EXCEPT !.For = value]
                     ELSE IF key = <<"host">> THEN [elem EXCEPT !.Host = value]
                     ELSE IF key = <<"proto">> THEN [elem EXCEPT !.Proto = value]
                     ELSE elem
         IN ParseParams(next, Tail(params))

RECURSIVE ParseParts(_)
ParseParts(parts) ==
    IF parts = <<>> THEN <<>>
    ELSE LET part == TrimSpace(Head(parts))
         IN (IF part = <<>> THEN <<>>
             ELSE <<ParseParams(ForwardedElement, Split(part, ";"))>>)
            \o ParseParts(Tail(parts))

ParseForwarded(header) ==
    IF header = <<>> THEN <<>> ELSE ParseParts(Split(header, ","))

(***************************************************************************)
(* httplogger: requests, requestAttributes and the RequestScoped          *)
(* middleware.                                                             *)
(***************************************************************************)
SlogInt(k, n) == [key |-> k, leaf |-> TRUE, val |-> n, attrs |-> <<>>]

\* textproto.CanonicalMIMEHeaderKey, on the header names of the model
CanonicalKey(key) ==
    CASE key = "X-Request-ID" -> "X-Request-Id"
      [] key = "X-Real-IP" -> "X-Real-Ip"
      [] OTHER -> key

\* http.Header.Get: the first value of the header, or the empty string
Get(header, key) ==
    IF CanonicalKey(key) \in DOMAIN header /\ Len(header[CanonicalKey(key)]) > 0
      THEN header[CanonicalKey(key)][1]
      ELSE <<>>

\* strings.Join(values, ",")
RECURSIVE JoinValues(_)
JoinValues(values) ==
    IF values = <<>> THEN <<>>
    ELSE IF Len(values) = 1 THEN values[1]
    ELSE values[1] \o <<",">> \o JoinValues(Tail(values))

\* fmt.Sprintf("http.request.header.%s", lowerName)
HeaderAttrKey(lowerName) ==
    CASE lowerName = "forwarded" -> "http.request.header.forwarded"
      [] lowerName = "x-forwarded-for" -> "http.request.header.x-forwarded-for"
      [] lowerName = "x-real-ip" -> "http.request.header.x-real-ip"
      [] lowerName = "x-request-id" -> "http.request.header.x-request-id"

\* a header loop that looks the header's name up as it is written
RECURSIVE HeaderAttrsExactName(_, _, _)
HeaderAttrsExactName(header, excluded, order) ==
    IF order = <<>> THEN <<>>
    ELSE LET lowerName == ToLower(<<Head(order)>>)[1]
         IN (IF Head(order) \in excluded THEN <<>>
             ELSE <<String(HeaderAttrKey(lowerName), JoinValues(header[Head(order)]))>>)
            \o HeaderAttrsExactName(header, excluded, Tail(order))

\* requestAttributes: the attributes of the headers, in the order in which
\* the range over the header map yields them
RECURSIVE HeaderAttrs(_, _, _)
HeaderAttrs(header, excluded, order) ==
    IF order = <<>> THEN <<>>
    ELSE LET lowerName == ToLower(<<Head(order)>>)[1]
         IN (IF lowerName \in excluded THEN <<>>
             ELSE <<String(HeaderAttrKey(lowerName), JoinValues(header[Head(order)]))>>)
            \o HeaderAttrs(header, excluded, Tail(order))

requestAttributes(r, excludeHeaders, order) ==
    LET none == [host |-> <<>>, port |-> -1]
        forwarded == ParseForwarded(Get(r.Header, "Forwarded"))
        fwdHost == IF Len(forwarded) > 0 /\ forwarded[1].Host # <<>>
                     THEN splitHostPort(forwarded[1].Host) ELSE none
        server == IF fwdHost.host = <<>>
                    THEN firstHostPort(<<Get(r.Header, "X-Forwarded-Host"), r.Host>>)
                    ELSE fwdHost
        fwdProto == IF Len(forwarded) > 0 /\ forwarded[1].Proto # <<>>
                      THEN forwarded[1].Proto ELSE <<>>
        xProto == IF fwdProto = <<>> THEN Get(r.Header, "X-Forwarded-Proto") ELSE fwdProto
        scheme == IF xProto # <<>> THEN xProto
                  ELSE IF r.TLS THEN <<"https">> ELSE <<"http">>
        port == IF server.port # -1 THEN server.port
                ELSE IF scheme = <<"https">> THEN 443
                ELSE IF scheme = <<"http">> THEN 80
                ELSE -1
        fwdFor == IF Len(forwarded) > 0 /\ forwarded[1].For # <<>>
                    THEN splitHostPort(forwarded[1].For) ELSE none
        client == IF fwdFor.host = <<>>
                    THEN firstHostPort(<<Get(r.Header, "X-Real-IP"),
                                         parseXForwardedFor(Get(r.Header, "X-Forwarded-For")),
                                         r.RemoteAddr>>)
                    ELSE fwdFor
        proto == Cut(r.Proto, "/")
        peer == splitHostPort(r.RemoteAddr)
        excluded == {ToLower(<<excludeHeaders[i]>>)[1] : i \in 1..Len(excludeHeaders)}
    IN <<String("server.address", server.host),
         SlogInt("server.port", port),
         String("network.protocol.name", IF proto.found THEN ToLower(proto.before) ELSE <<"http">>),
         String("network.protocol.version", IF proto.found THEN proto.after ELSE <<"1.1">>),
         String("http.request.method", r.Method),
         SlogInt("http.request.size", 0),
         String("url.path", r.Path),
         String("url.scheme", scheme),
         String("user_agent.original", Get(r.Header, "User-Agent")),
         String("client.address", client.host)>>
       \o (IF client.port # -1 THEN <<SlogInt("client.port", client.port)>> ELSE <<>>)
       \o (IF r.Query # <<>> THEN <<String("url.query", <<"?">> \o r.Query)>> ELSE <<>>)
       \o (IF peer.host # <<>>
             THEN <<String("network.peer.address", peer.host)>>
                  \o (IF peer.port # -1 THEN <<SlogInt("network.peer.port", peer.port)>> ELSE <<>>)
             ELSE <<>>)
       \o HeaderAttrs(r.Header, excluded, order)

\* What a client and the proxies in front of the server send is described
\* by addresses ([host, port, v6]); the header values are written from them.
\* One element of a Forwarded header: for= and proto=, with the for value
\* quoted when it holds a colon or a bracket (RFC 7239)
ForwardedElementText(e) ==
    LET a == e.for[1]
        portText == CASE a.port = 4711 -> "4711" [] a.port = 12345 -> "12345"
        hostPort == (IF a.v6 THEN <<"[">> \o a.host \o <<"]">> ELSE a.host)
                    \o (IF a.port # -1 THEN <<":", portText>> ELSE <<>>)
        forValue == IF a.v6 \/ a.port # -1 THEN <<"\"">> \o hostPort \o <<"\"">> ELSE hostPort
    IN (IF e.for # <<>> THEN <<"for", "=">> \o forValue ELSE <<>>)
       \o (IF e.for # <<>> /\ e.proto # <<>> THEN <<";">> ELSE <<>>)
       \o (IF e.proto # <<>> THEN <<"proto", "=">> \o e.proto ELSE <<>>)

RECURSIVE ForwardedText(_)
ForwardedText(elems) ==
    IF elems = <<>> THEN <<>>
    ELSE ForwardedElementText(Head(elems))
         \o (IF Len(elems) > 1 THEN <<",", " ">> \o ForwardedText(Tail(elems)) ELSE <<>>)

\* X-Forwarded-For: the addresses without brackets and ports
RECURSIVE XForwardedForText(_)
XForwardedForText(addrs) ==
    IF addrs = <<>> THEN <<>>
    ELSE Head(addrs).host
         \o (IF Len(addrs) > 1 THEN <<",", " ">> \o XForwardedForText(Tail(addrs)) ELSE <<>>)

\* the header map of a request
HeaderOf(sent) ==
    LET names == (IF sent.rid # <<>> THEN {"X-Request-Id"} ELSE {})
                 \cup (IF sent.fwd # <<>> THEN {"Forwarded"} ELSE {})
                 \cup (IF sent.xff # <<>> THEN {"X-Forwarded-For"} ELSE {})
                 \cup (IF sent.xri # <<>> THEN {"X-Real-Ip"} ELSE {})
    IN [n \in names |->
          CASE n = "X-Request-Id" -> sent.rid
            [] n = "Forwarded" -> <<ForwardedText(sent.fwd)>>
            [] n = "X-Forwarded-For" -> <<XForwardedForText(sent.xff)>>
            [] n = "X-Real-Ip" -> <<sent.xri[1].host>>]

\* GET / HTTP/1.1 over a plain connection from 127.0.0.1:12345
Request(sent, ctx) ==
    [Header |-> HeaderOf(sent), RemoteAddr |-> sent.remote.host \o <<":", "12345">>,
     Host |-> <<"example.com">>, TLS |-> FALSE, Proto |-> <<"HTTP", "/", "1.1">>,
     Method |-> <<"GET">>, Path |-> <<"/">>, Query |-> <<>>, ctx |-> ctx, sent |-> sent]

\* the requests of the model: with X-Request-ID absent, empty and set, under
\* every span context; and with every combination of a Forwarded header
\* (none; client and proxy; an IPv6 client with a port; a first element
\* without for=), an X-Forwarded-For header (none; two addresses; an IPv6
\* address) and an X-Real-IP header (none; an address)
Requests ==
    LET Addr(host, port, v6) == [host |-> host, port |-> port, v6 |-> v6]
        v6host == <<"2001", ":", "db8", ":", ":", "1">>
        proxy == Addr(<<"198.51.100.17">>, -1, FALSE)
        FwdElem(for, proto) == [for |-> for, proto |-> proto]
        Sent(rid, fwd, xff, xri) ==
            [rid |-> rid, fwd |-> fwd, xff |-> xff, xri |-> xri,
             remote |-> Addr(<<"127.0.0.1">>, 12345, FALSE)]
        rids == {<<>>, << <<>> >>, << <<"abc">> >>}
        fwds == {<<>>,
                 <<FwdElem(<<Addr(<<"192.0.2.60">>, -1, FALSE)>>, <<"http">>),
                   FwdElem(<<proxy>>, <<>>)>>,
                 <<FwdElem(<<Addr(v6host, 4711, TRUE)>>, <<>>)>>,
                 <<FwdElem(<<>>, <<"https">>), FwdElem(<<proxy>>, <<>>)>>}
        xffs == {<<>>,
                 <<Addr(<<"10.0.0.1">>, -1, FALSE), Addr(<<"10.0.0.2">>, -1, FALSE)>>,
                 <<Addr(v6host, -1, TRUE)>>}
        xris == {<<>>, <<Addr(<<"10.0.0.9">>, -1, FALSE)>>}
    IN {Request(Sent(rid, <<>>, <<>>, <<>>), ctx) : rid \in rids, ctx \in Contexts}
       \cup {Request(Sent(<<>>, fwd, xff, xri), NoSpan) :
                fwd \in fwds, xff \in xffs, xri \in xris}

\* the orders in which a range over the header map can yield its keys
Orders(header) ==
    {o \in [1..Cardinality(DOMAIN header) -> DOMAIN header] :
        \A i, j \in DOMAIN o : o[i] = o[j] => i = j}

\* the requests without an identifier of their own that one middleware
\* serves
MaxRequests == 2

\* uuid.NewString: an identifier that no earlier call has returned
NewString(earlier) ==
    <<CASE Len(earlier) = 0 -> "uuid-1"
        [] Len(earlier) = 1 -> "uuid-2"
        [] Len(earlier) = 2 -> "uuid-3"
        [] OTHER -> "uuid-4">>

\* a middleware that ignores the inbound header
RequestIDAlwaysNew(header, earlier) == NewString(earlier)

\* RequestScoped: the request identifier
RequestID(header, earlier) ==
    IF Get(header, "X-Request-ID") = <<>> THEN NewString(earlier)
    ELSE Get(header, "X-Request-ID")

\* trace attributes for any span the context carries, valid or not
TraceAttrsAnySpan(addTrace, span) ==
    IF addTrace /\ span.has
      THEN <<String("trace_id", <<span.tid>>), String("span_id", <<span.sid>>)>>
      ELSE <<>>

\* RequestScoped: the trace attributes
TraceAttrs(addTrace, span) ==
    IF addTrace /\ IsValid(span)
      THEN <<String("trace_id", <<span.tid>>), String("span_id", <<span.sid>>)>>
      ELSE <<>>

\* the middleware serves a request: it derives the logger, logs the
\* request if asked to, and calls the next handler with the request and the
\* logger.  It keeps nothing of the request; only the identifiers that
\* uuid.NewString has returned are remembered.
RequestScoped(r) ==
    LET requestID == RequestID(r.Header, generated)
        withID == BaseWithAttrs(BaseHandler, <<String("request.id", requestID)>>)
        trace == TraceAttrs(cfg.AddTrace, r.ctx)
        reqHandler == IF trace # <<>> THEN BaseWithAttrs(withID, trace) ELSE withID
    IN
    /\ Len(generated) < MaxRequests
    /\ \E order \in (IF cfg.LogRequest THEN Orders(r.Header) ELSE {<<>>}) :
          served' = <<[r |-> r,
                       logger |-> reqHandler,
                       next |-> [Header |-> r.Header, logger |-> reqHandler],
                       logged |-> IF cfg.LogRequest
                                    THEN BaseHandle(reqHandler,
                                                    requestAttributes(r, cfg.ExcludeHeaders, order))
                                    ELSE <<>>]>>
    /\ generated' = IF requestID \in {Get(r.Header, "X-Request-ID")} THEN generated
                     ELSE Append(generated, requestID)
    /\ UNCHANGED <<cfg, handler, reqs, arg, res, otelVars, prettyVars>>

HttpNext == \E r \in Requests : RequestScoped(r)

\* a middleware built with any Config
HttpInit ==
    /\ OtelStart /\ options = <<>> /\ PrettyStart("pretty", {}, {PlainRoot})
    /\ cfg \in [AddTrace : BOOLEAN, LogRequest : BOOLEAN,
                 ExcludeHeaders : {<<>>, <<"X-Request-ID">>,
                                   <<"x-forwarded-for", "FORWARDED">>}]
    /\ served = <<>>
    /\ generated = <<>>
    /\ handler = BaseHandler
    /\ reqs = <<>>
    /\ arg = <<>>
    /\ res = <<>>

SpecHttp == HttpInit /\ [][HttpNext]_vars

(***************************************************************************)
(* slogctx: the logger in a context.  A context is nil or the chain of     *)
(* the values bound by context.WithValue, the innermost last.              *)
(***************************************************************************)
\* slog.New(h)
SlogNew(h) == [kind |-> "new", handler |-> h]

\* slog.Default()
SlogDefault == [kind |-> "default", handler |-> BaseHandler]

\* WithLogger: context.WithValue panics when the parent is nil
WithLogger(ctx, logger) ==
    [panicked |-> ctx.nil,
     ctx |-> IF ctx.nil THEN ctx
             ELSE [ctx EXCEPT !.values = Append(@, [key |-> "loggerKey", val |-> logger])]]

\* a lookup that stops at the outermost logger of the chain
GetLoggerOutermost(ctx) ==
    LET at == {i \in 1..Len(ctx.values) : ctx.values[i].key = "loggerKey"}
    IN IF ctx.nil \/ at = {} THEN SlogDefault
       ELSE ctx.values[CHOOSE i \in at : \A j \in at : i <= j].val

\* GetLogger: ctx.Value finds the innermost value bound to the key
GetLogger(ctx) ==
    LET at == {i \in 1..Len(ctx.values) : ctx.values[i].key = "loggerKey"}
    IN IF ctx.nil \/ at = {} THEN SlogDefault
       ELSE ctx.values[CHOOSE i \in at : \A j \in at : i >= j].val

(***************************************************************************)
(* httplogger.RequestScoped under concurrent requests: the server runs     *)
(* the handler function in one goroutine per request.                      *)
(***************************************************************************)
\* lines 34-41: the context and the request identifier
ReadRequestID(g) ==
    LET requestID == RequestID(reqs[g].r.Header, generated)
    IN /\ reqs[g].pc = "start"
       /\ reqs' = [reqs EXCEPT ![g].pc = "derive", ![g].requestID = requestID]
       /\ generated' = IF requestID \in {Get(reqs[g].r.Header, "X-Request-ID")} THEN generated
                        ELSE Append(generated, requestID)
       /\ UNCHANGED <<cfg, served, handler, arg, res, otelVars, prettyVars>>

\* a middleware that keeps the derived handler in the variable it derives
\* from
DeriveHandlerRebinding(g) ==
    LET withID == BaseWithAttrs(handler, <<String("request.id", reqs[g].requestID)>>)
        trace == TraceAttrs(cfg.AddTrace, reqs[g].r.ctx)
        reqHandler == IF trace # <<>> THEN BaseWithAttrs(withID, trace) ELSE withID
    IN /\ reqs[g].pc = "derive"
       /\ reqs' = [reqs EXCEPT ![g].pc = "publish", ![g].reqHandler = reqHandler]
       /\ handler' = reqHandler
       /\ UNCHANGED <<cfg, served, generated, arg, res, otelVars, prettyVars>>

\* lines 43-63: the request's handler, derived from the base handler
DeriveHandler(g) ==
    LET withID == BaseWithAttrs(handler, <<String("request.id", reqs[g].requestID)>>)
        trace == TraceAttrs(cfg.AddTrace, reqs[g].r.ctx)
        reqHandler == IF trace # <<>> THEN BaseWithAttrs(withID, trace) ELSE withID
    IN /\ reqs[g].pc = "derive"
       /\ reqs' = [reqs EXCEPT ![g].pc = "publish", ![g].reqHandler = reqHandler]
       /\ UNCHANGED <<cfg, served, generated, handler, arg, res, otelVars, prettyVars>>

\* lines 66-74: the logger goes into the request's context, and the request
\* is logged if asked for
PublishLogger(g) ==
    LET logger == SlogNew(reqs[g].reqHandler)
    IN /\ reqs[g].pc = "publish"
       /\ \E order \in (IF cfg.LogRequest THEN Orders(reqs[g].r.Header) ELSE {<<>>}) :
             reqs' = [reqs EXCEPT
                         ![g].pc = "next",
                         ![g].ctx = WithLogger(@, logger).ctx,
                         ![g].logged =
                             IF cfg.LogRequest
                               THEN BaseHandle(logger.handler,
                                               requestAttributes(reqs[g].r, cfg.ExcludeHeaders, order))
                               ELSE <<>>]
       /\ UNCHANGED <<cfg, served, generated, handler, arg, res, otelVars, prettyVars>>

\* line 76: the next handler is called with the request that carries the
\* context; what it finds there with GetLogger is recorded
ServeNext(g) ==
    /\ reqs[g].pc = "next"
    /\ reqs' = [reqs EXCEPT ![g].pc = "done",
                            ![g].next = Append(@, [ctx |-> reqs[g].ctx,
                                                   logger |-> GetLogger(reqs[g].ctx)])]
    /\ UNCHANGED <<cfg, served, generated, handler, arg, res, otelVars, prettyVars>>

ConcNext ==
    \E g \in DOMAIN reqs :
        ReadRequestID(g) \/ DeriveHandler(g) \/ PublishLogger(g) \/ ServeNext(g)

\* two requests arrive together, without forwarding headers; each goroutine
\* starts with the locals of the handler function, its context the
\* request's
ConcInit ==
    LET ConcRequests ==
            {r \in Requests : r.sent.fwd = <<>> /\ r.sent.xff = <<>> /\ r.sent.xri = <<>>}
        Accepted(r) ==
            [pc |-> "start", r |-> r, ctx |-> [nil |-> FALSE, values |-> <<>>],
             requestID |-> <<>>, reqHandler |-> BaseHandler, logged |-> <<>>, next |-> <<>>]
    IN
    /\ OtelStart /\ options = <<>> /\ PrettyStart("pretty", {}, {PlainRoot})
    /\ cfg \in [AddTrace : BOOLEAN, LogRequest : BOOLEAN, ExcludeHeaders : {<<>>}]
    /\ served = <<>>
    /\ generated = <<>>
    /\ handler = BaseHandler
    /\ reqs \in [{1, 2} -> {Accepted(r) : r \in ConcRequests}]
    /\ arg = <<>>
    /\ res = <<>>

SpecConc == ConcInit /\ [][ConcNext]_vars

(***************************************************************************)
(* Calls of the package's functions, each with arguments drawn from a      *)
(* bounded set; arg and res hold the last call and what it returned.       *)
(***************************************************************************)
\* the most values bound in a context before WithLogger is called on it
MaxNesting == 2

\* child := WithLogger(ctx, l), with GetLogger called on ctx before and
\* after it and on the child.  The context is nil, empty, or holds loggers
\* and values of other keys; the logger is a new one, one with a request
\* identifier, or a nil *slog.Logger.
CallWithLogger ==
    LET Loggers == {SlogNew(BaseHandler),
                    SlogNew(BaseWithAttrs(BaseHandler, <<String("request.id", <<"abc">>)>>)),
                    [kind |-> "nil", handler |-> BaseHandler]}
        Bindings == [key : {"loggerKey", "otherKey"}, val : Loggers]
        Chains == UNION {[1..n -> Bindings] : n \in 0..MaxNesting}
        ValueContexts == {[nil |-> TRUE, values |-> <<>>]}
                         \cup {[nil |-> FALSE, values |-> c] : c \in Chains}
    IN \E ctx \in ValueContexts, l \in Loggers :
          LET out == WithLogger(ctx, l)
          IN /\ arg' = [fn |-> "WithLogger", ctx |-> ctx, logger |-> l]
             /\ res' = [fn |-> "WithLogger", panicked |-> out.panicked,
                        before |-> GetLogger(ctx),
                        child |-> IF out.panicked THEN SlogDefault ELSE GetLogger(out.ctx),
                        after |-> GetLogger(ctx)]
             /\ UNCHANGED <<cfg, served, generated, handler, reqs, otelVars, prettyVars>>

\* a handler that marks only the records above the error level
StackdriverHandleAboveError(r, innerErr) ==
    [passed |-> IF r.level > LevelError
                  THEN [r EXCEPT !.attrs = Append(@, String("@type", <<"type.googleapis.com/google.devtools.clouderrorreporting.v1beta1.ReportedErrorEvent">>))]
                  ELSE r,
     err |-> IF innerErr # <<>>
               THEN <<"error when calling nested handler's Handle: ">> \o innerErr
               ELSE <<>>]

\* stackdriver.Handler.Handle: the record passed to the wrapped handler, and
\* the error returned when the wrapped handler returns innerErr
StackdriverHandle(r, innerErr) ==
    [passed |-> IF r.level >= LevelError
                  THEN [r EXCEPT !.attrs = Append(@, String("@type", <<"type.googleapis.com/google.devtools.clouderrorreporting.v1beta1.ReportedErrorEvent">>))]
                  ELSE r,
     err |-> IF innerErr # <<>>
               THEN <<"error when calling nested handler's Handle: ">> \o innerErr
               ELSE <<>>]

\* Handle is called with a record of any level from debug to above error,
\* without attributes, with one, or with one that is keyed @type already;
\* the wrapped handler succeeds or fails
CallHandle ==
    \E level \in (LevelDebug - 1)..(LevelError + 1),
       attrs \in {<<>>, <<String("k", <<"v">>)>>, <<String("@type", <<"mine">>)>>},
       innerErr \in {<<>>, <<"write failed">>} :
          LET r == [level |-> level, msg |-> "m", attrs |-> attrs]
          IN /\ arg' = [fn |-> "Handle", r |-> r, innerErr |-> innerErr]
             /\ res' = [fn |-> "Handle"] @@ StackdriverHandle(r, innerErr)
             /\ UNCHANGED <<cfg, served, generated, handler, reqs, otelVars, prettyVars>>

(***************************************************************************)
(* stackdriver: the severity of a level.                                   *)
(***************************************************************************)
NOTICE == 2

CRITICAL == 10

ALERT == 12

EMERGENCY == 14

\* slog.Level.String: the name of the nearest named level at or below
\* (DEBUG below debug), followed by the offset from it printed with %+d
LevelString(l) ==
    LET signed(val) == CASE val = -1 -> "-1" [] val = 1 -> "+1" [] val = 2 -> "+2"
                         [] val = 3 -> "+3" [] val = 4 -> "+4" [] val = 5 -> "+5"
                         [] val = 6 -> "+6" [] val = 7 -> "+7"
        str(base, val) == IF val = 0 THEN <<base>> ELSE <<base, signed(val)>>
    IN IF l < LevelInfo THEN str("DEBUG", l - LevelDebug)
       ELSE IF l < LevelWarn THEN str("INFO", l - LevelInfo)
       ELSE IF l < LevelError THEN str("WARN", l - LevelWarn)
       ELSE str("ERROR", l - LevelError)

\* ReplaceLogLevel, with the levelNames map
ReplaceLogLevel(a) ==
    LET levelNames == [l \in {NOTICE, CRITICAL, ALERT, EMERGENCY} |->
                          CASE l = NOTICE -> <<"NOTICE">> [] l = CRITICAL -> <<"CRITICAL">>
                            [] l = ALERT -> <<"ALERT">> [] l = EMERGENCY -> <<"EMERGENCY">>]
    IN IF a.key = "level"
         THEN [a EXCEPT !.key = "severity",
                        !.val = IF a.val \in DOMAIN levelNames THEN levelNames[a.val]
                                ELSE LevelString(a.val)]
         ELSE a

\* ParseLogLevel; strconv.Atoi knows the numerals of the model
ParseLogLevel(value) ==
    LET v == ToLower(TrimSpace(value))
        Atoi == IF value = <<"3">> THEN 3 ELSE IF value = <<"12">> THEN 12 ELSE -1000
    IN IF Len(value) > 0
         THEN IF v = <<"debug">> THEN LevelDebug
              ELSE IF v = <<"info">> THEN LevelInfo
              ELSE IF v = <<"notice">> THEN NOTICE
              ELSE IF v = <<"warning">> THEN LevelWarn
              ELSE IF v = <<"error">> THEN LevelError
              ELSE IF v = <<"critical">> THEN CRITICAL
              ELSE IF v = <<"alert">> THEN ALERT
              ELSE IF v = <<"emergency">> THEN EMERGENCY
              ELSE IF Atoi # -1000 THEN Atoi
              ELSE LevelInfo
         ELSE LevelInfo

\* the hook is called with the level attribute of a record, of any level
\* from below DEBUG to above EMERGENCY, or with another attribute, and
\* ParseLogLevel with the severity the hook wrote or with another text
CallReplaceLogLevel ==
    \E a \in {[key |-> "level", leaf |-> TRUE, val |-> l, attrs |-> <<>>] :
                 l \in (LevelDebug - 1)..(EMERGENCY + 1)}
             \cup {String("k", <<"v">>)},
       other \in {<<>>, <<" ", "Warning", " ">>, <<"3">>, <<"12">>} :
          LET out == ReplaceLogLevel(a)
              value == IF other = <<>> /\ a.key = "level" THEN out.val ELSE other
          IN /\ arg' = [fn |-> "ReplaceLogLevel", a |-> a, value |-> value]
             /\ res' = [fn |-> "ReplaceLogLevel", a |-> out, parsed |-> ParseLogLevel(value)]
             /\ UNCHANGED <<cfg, served, generated, handler, reqs, otelVars, prettyVars>>

\* the most elements of a Forwarded header
MaxElements == 2

\* ParseForwarded is called with the text of a header of up to MaxElements
\* elements.  An element is a list of parameters [key, eq, val, quoted,
\* spaced]: those of the tests (plain, quoted, keys in upper case, spaces
\* around the separators, no equals sign), an unknown key, and quoted
\* values that hold a comma or a semicolon.
CallParseForwarded ==
    LET P(key, val) == [key |-> key, eq |-> TRUE, val |-> val, quoted |-> FALSE, spaced |-> FALSE]
        Quoted(key, val) == [P(key, val) EXCEPT !.quoted = TRUE]
        Spaced(key, val) == [P(key, val) EXCEPT !.spaced = TRUE]
        Elements ==
            {<<P("for", <<"192.0.2.60">>), P("proto", <<"http">>), P("by", <<"203.0.113.43">>)>>,
             <<Quoted("For", <<"[", "2001", ":", "db8", ":", ":", "1", "]", ":", "4711">>)>>,
             <<Spaced("for", <<"192.0.2.60">>), Spaced("Proto", <<"http">>)>>,
             <<[P("for192.0.2.60", <<>>) EXCEPT !.eq = FALSE], P("proto", <<"http">>)>>,
             <<P("secret", <<"1">>), P("host", <<"example.com">>)>>,
             <<Quoted("host", <<"a", ",", "b">>)>>,
             <<Quoted("by", <<"x", ";", "y">>), P("for", <<"192.0.2.43">>)>>}
        pad(p) == IF p.spaced THEN <<" ">> ELSE <<>>
        ParamText(p) ==
            pad(p) \o <<p.key>> \o pad(p)
            \o (IF p.eq THEN <<"=">> \o pad(p)
                             \o (IF p.quoted THEN <<"\"">> \o p.val \o <<"\"">> ELSE p.val)
                ELSE <<>>)
            \o pad(p)
        ElementText(e) ==
            ParamText(e[1])
            \o (IF Len(e) > 1 THEN <<";">> \o ParamText(e[2]) ELSE <<>>)
            \o (IF Len(e) > 2 THEN <<";">> \o ParamText(e[3]) ELSE <<>>)
        HeaderText[h \in UNION {[1..n -> Elements] : n \in 0..MaxElements}] ==
            IF h = <<>> THEN <<>>
            ELSE ElementText(h[1])
                 \o (IF Len(h) > 1 THEN <<",", " ">> \o HeaderText[Tail(h)] ELSE <<>>)
    IN \E h \in UNION {[1..n -> Elements] : n \in 0..MaxElements} :
          /\ arg' = [fn |-> "ParseForwarded", elements |-> h, header |-> HeaderText[h]]
          /\ res' = [fn |-> "ParseForwarded", elements |-> ParseForwarded(HeaderText[h])]
          /\ UNCHANGED <<cfg, served, generated, handler, reqs, otelVars, prettyVars>>

CallsNext ==
    \/ CallWithLogger
    \/ CallHandle
    \/ CallReplaceLogLevel
    \/ CallParseForwarded

CallsInit ==
    /\ OtelStart /\ options = <<>> /\ PrettyStart("pretty", {}, {PlainRoot})
    /\ cfg = [AddTrace |-> FALSE, LogRequest |-> FALSE, ExcludeHeaders |-> <<>>]
    /\ served = <<>>
    /\ generated = <<>>
    /\ handler = BaseHandler
    /\ reqs = <<>>
    /\ arg = [fn |-> "none"]
    /\ res = [fn |-> "none"]

SpecCalls == CallsInit /\ [][CallsNext]_vars

(***************************************************************************)
(* stackdriver.Logging.  The source holds the middleware twice: with the   *)
(* handler variable of the closure re-bound on each request, and with a    *)
(* handler local to each request.  cfg holds the MiddlewareOptions and     *)
(* which of the two is built; served holds every request served.           *)
(***************************************************************************)
\* stackdriver.NewHandler: the JSON handler with the serviceContext group bound
StackdriverHandler ==
    BaseWithAttrs(BaseHandler,
                  <<Group("serviceContext", <<String("service", <<"svc">>),
                                              String("version", <<"v1">>)>>)>>)

\* what Logging binds for a request: the trace attributes of getTraceAttrs
\* when AddTrace is set and the span is valid, then the httpRequest group
\* when AddHTTPRequest is set
BindRequest(h, r, sampled) ==
    LET getTraceAttrs ==
            <<String("logging.googleapis.com/trace",
                     <<"projects/", cfg.GCPProjectID, "/traces/", r.ctx.tid>>),
              String("logging.googleapis.com/spanId", <<r.ctx.sid>>),
              String("logging.googleapis.com/trace_sampled",
                     IF sampled THEN <<"true">> ELSE <<"false">>)>>
        traced == IF cfg.AddTrace /\ IsValid(r.ctx) THEN BaseWithAttrs(h, getTraceAttrs) ELSE h
    IN IF cfg.AddHTTPRequest
         THEN BaseWithAttrs(traced,
                  <<Group("httpRequest",
                          <<String("requestMethod", r.Method),
                            String("requestUrl", r.Path),
                            String("protocol", r.Proto),
                            String("remoteIp", r.RemoteAddr),
                            String("userAgent", Get(r.Header, "User-Agent")),
                            String("referer", Get(r.Header, "Referer"))>>)>>)
         ELSE traced

\* the requests one middleware serves
MaxServed == 2

\* what the next handler is called with
NextCall(r, h) ==
    [r |-> r, logger |-> h,
     next |-> [Header |-> r.Header,
               logger |-> GetLogger(WithLogger([nil |-> FALSE, values |-> <<>>], SlogNew(h)).ctx)]]

\* Logging with the closure's handler variable re-bound
LoggingRebinding(r) ==
    /\ cfg.version = "rebinding"
    /\ Len(served) < MaxServed
    /\ \E sampled \in BOOLEAN :
          /\ handler' = BindRequest(handler, r, sampled)
          /\ served' = Append(served, NextCall(r, handler'))
    /\ UNCHANGED <<cfg, generated, reqs, arg, res, otelVars, prettyVars>>

\* Logging with a handler of the request's own, which has its requestId
Logging(r) ==
    LET requestID == RequestID(r.Header, generated)
    IN /\ cfg.version = "scoped"
       /\ Len(served) < MaxServed
       /\ \E sampled \in BOOLEAN :
             served' = Append(served,
                 NextCall(r, BindRequest(BaseWithAttrs(handler, <<String("requestId", requestID)>>),
                                         r, sampled)))
       /\ generated' = IF requestID \in {Get(r.Header, "X-Request-ID")} THEN generated
                        ELSE Append(generated, requestID)
       /\ UNCHANGED <<cfg, handler, reqs, arg, res, otelVars, prettyVars>>

LoggingNext ==
    \E r \in {q \in Requests : q.sent.fwd = <<>> /\ q.sent.xff = <<>> /\ q.sent.xri = <<>>} :
        LoggingRebinding(r) \/ Logging(r)

LoggingInit ==
    /\ OtelStart /\ options = <<>> /\ PrettyStart("pretty", {}, {PlainRoot})
    /\ cfg \in [GCPProjectID : {"proj"}, AddTrace : BOOLEAN, AddHTTPRequest : BOOLEAN,
                 version : {"rebinding", "scoped"}]
    /\ served = <<>>
    /\ generated = <<>>
    /\ handler = StackdriverHandler
    /\ reqs = <<>>
    /\ arg = <<>>
    /\ res = <<>>

SpecLogging == LoggingInit /\ [][LoggingNext]_vars

(***************************************************************************)
(* A family of otel handlers: any handler derived so far is derived from   *)
(* again, by any caller.  A Handler holds its preAttrs and groups as       *)
(* slices, [a, len]: the first len cells of the array heap[a], or nil when *)
(* a = 0; handlers that hold the same slice share its array.               *)
(***************************************************************************)
\* the handlers of one family
MaxFamily == 4

\* the Handler struct with its slices read through the heap
View(h) ==
    LET cells(s) == IF s.a = 0 THEN <<>> ELSE SubSeq(heap[s.a], 1, s.len)
    IN [handler |-> h.handler, preAttrs |-> cells(h.preAttrs), groups |-> cells(h.groups)]

\* a WithAttrs that appends to the receiver's preAttrs and returns the
\* receiver
FamilyWithAttrsInPlace(i, as) ==
    LET h == family[i].h
        newPreAttrs == View(h).preAttrs \o as
    IN /\ Len(family) < MaxFamily
       /\ Len(family[i].path) < MaxDerive
       /\ as # <<>>
       /\ heap' = Append(heap, newPreAttrs)
       /\ family' = Append([family EXCEPT ![i].h.preAttrs = [a |-> Len(heap) + 1, len |-> Len(newPreAttrs)]],
                           [h |-> [h EXCEPT !.preAttrs = [a |-> Len(heap) + 1, len |-> Len(newPreAttrs)]],
                            path |-> Append(family[i].path, [op |-> "attrs", name |-> "", attrs |-> as])])
       /\ UNCHANGED <<oh, oops, ocall, prettyVars, httpVars>>

\* Handler.WithAttrs on the i-th handler of the family: the receiver for no
\* attributes; at root level a handler with a new preAttrs array, the
\* receiver's copied into it; in a group a handler with the receiver's
\* slices and a wrapped handler that has the attributes
FamilyWithAttrs(i, as) ==
    LET h == family[i].h
        newPreAttrs == View(h).preAttrs \o as
        derived == IF h.groups.len = 0
                     THEN [handler |-> h.handler,
                           preAttrs |-> [a |-> Len(heap) + 1, len |-> Len(newPreAttrs)],
                           groups |-> h.groups]
                     ELSE [handler |-> BaseWithAttrs(h.handler, as),
                           preAttrs |-> h.preAttrs, groups |-> h.groups]
    IN /\ Len(family) < MaxFamily
       /\ Len(family[i].path) < MaxDerive
       /\ IF Len(as) = 0 THEN UNCHANGED <<family, heap>>
          ELSE /\ heap' = IF h.groups.len = 0 THEN Append(heap, newPreAttrs) ELSE heap
               /\ family' = Append(family,
                                   [h |-> derived,
                                    path |-> Append(family[i].path,
                                                    [op |-> "attrs", name |-> "", attrs |-> as])])
       /\ UNCHANGED <<oh, oops, ocall, prettyVars, httpVars>>

\* Handler.WithGroup on the i-th handler of the family: the receiver for
\* the empty name; otherwise a handler with a new groups array, the
\* receiver's copied into it, and the receiver's preAttrs slice
FamilyWithGroup(i, name) ==
    LET h == family[i].h
        newGroups == Append(View(h).groups, name)
    IN /\ Len(family) < MaxFamily
       /\ Len(family[i].path) < MaxDerive
       /\ IF name = "" THEN UNCHANGED <<family, heap>>
          ELSE /\ heap' = Append(heap, newGroups)
               /\ family' = Append(family,
                      [h |-> [handler |-> IF h.groups.len = 0 THEN h.handler
                                          ELSE BaseWithGroup(h.handler, name),
                              preAttrs |-> h.preAttrs,
                              groups |-> [a |-> Len(heap) + 1, len |-> Len(newGroups)]],
                       path |-> Append(family[i].path,
                                       [op |-> "group", name |-> name, attrs |-> <<>>])])
       /\ UNCHANGED <<oh, oops, ocall, prettyVars, httpVars>>

\* Handler.Handle on the i-th handler of the family; the family's records
\* come with a valid span
FamilyHandle(i, sc, recAttrs) ==
    /\ ocall' = [done |-> TRUE, sc |-> sc, attrs |-> recAttrs, ops |-> family[i].path,
                 h |-> View(family[i].h), out |-> HandleOutput(View(family[i].h), sc, recAttrs)]
    /\ UNCHANGED <<oh, oops, family, heap, prettyVars, httpVars>>

FamilyNext ==
    \E i \in 1..Len(family) :
        \/ \E as \in BoundAttrs : FamilyWithAttrs(i, as)
        \/ \E name \in GroupNames : FamilyWithGroup(i, name)
        \/ \E sc \in {c \in Contexts : IsValid(c)}, as \in CallAttrs : FamilyHandle(i, sc, as)

\* the family of Wrap(base), whose slices are nil
FamilyInit ==
    /\ oh = Wrap(BaseHandler) /\ oops = <<>> /\ ocall = NoCall
    /\ family = <<[h |-> [handler |-> BaseHandler, preAttrs |-> [a |-> 0, len |-> 0],
                          groups |-> [a |-> 0, len |-> 0]],
                   path |-> <<>>]>>
    /\ heap = <<>>
    /\ HttpStart /\ options = <<>> /\ PrettyStart("pretty", {}, {PlainRoot})

SpecFamily == FamilyInit /\ [][FamilyNext]_vars

Spec == SpecPretty

(***************************************************************************)
(* The pretty handler's claims.                                            *)
(***************************************************************************)
\* between h.mutex.Lock() and the deferred h.mutex.Unlock()
InCritical(p) == pc[p] \in {"inner", "unmarshal", "deferred"}

\* computeAttrs has returned, or is about to
AfterUnmarshal(p) == pc[p] \in {"deferred", "marshal", "write", "writing", "done"}

HandlerOf(p) == hs[call[p].h]

OwnDoc(p) == Doc(HandlerOf(p), call[p].rec.attrs)

\* C5: of the goroutines logging through one family at most one is between
\* Lock and Unlock, the buffer is written and read only by the holder of the
\* mutex, and what a call decodes is the encoding of its own record alone.
C5_BufferIsolation ==
    /\ \A p, q \in Procs : (p # q /\ InCritical(p)) => ~InCritical(q)
    /\ \A p \in Procs : InCritical(p) => mutex[HandlerOf(p).mutex] = p
    /\ \A p \in Procs :
          pc[p] = "unmarshal" =>
              buffer[HandlerOf(p).buffer] = <<[ok |-> call[p].fault = "", members |-> OwnDoc(p)]>>
    /\ \A p \in Procs :
          (AfterUnmarshal(p) /\ call[p].fault = "") =>
              /\ call[p].err \notin {"inner", "decode"}
              /\ call[p].attrs = Unmarshal(OwnDoc(p))

\* one goroutine has decoded its record through a derived handler while the
\* other waits for the mutex with a record for another handler of the family
C5_Witness ==
    \E p, q \in Procs :
        /\ p # q
        /\ pc[p] = "deferred" /\ call[p].err = "" /\ DOMAIN call[p].attrs = {"a", "b", "g"}
        /\ pc[q] = "lock" /\ call[q].h # call[p].h

\* C6: whenever the mutex is free the buffer is empty and no goroutine past
\* computeAttrs holds the mutex, and once some call has failed a record
\* still decodes to the encoding of that record.
C6_ResetOnEveryExit ==
    /\ \A b \in DOMAIN buffer : mutex[b] = "free" => buffer[b] = <<>>
    /\ \A p \in Procs : ~InCritical(p) => \A m \in DOMAIN mutex : mutex[m] # p
    /\ \A p \in Procs :
          (failed /\ AfterUnmarshal(p) /\ call[p].fault = "") =>
              /\ call[p].err # "decode"
              /\ call[p].attrs = Unmarshal(OwnDoc(p))

\* a record decoded after an earlier call failed
C6_Witness ==
    /\ failed
    /\ \E p \in Procs :
          /\ pc[p] = "marshal"
          /\ DOMAIN call[p].attrs # {}
          /\ \A q \in Procs \ {p} : pc[q] = "idle"

\* C7: a Handle call that returns nil on a handler with a writer has written
\* once, a text that ends with the newline; one that returns an error of the
\* inner handler, of the decoding or of the re-encoding has written nothing,
\* and nothing is written before the line is complete.
C7_OneWritePerRecord ==
    \A p \in Procs :
        /\ pc[p] # "done" => call[p].written = <<>>
        /\ (pc[p] = "done" /\ call[p].err = "" /\ HandlerOf(p).writer # "nil") =>
              /\ Len(call[p].written) = 1
              /\ call[p].written[1][Len(call[p].written[1])] = NL
        /\ (pc[p] = "done" /\ call[p].err \in {"inner", "decode", "marshal", "unsupported"}) =>
              call[p].written = <<>>

\* a record with an attribute, written through a derived handler
C7_Witness ==
    \E p \in Procs :
        /\ pc[p] = "done" /\ call[p].err = ""
        /\ call[p].h = 2
        /\ Len(call[p].written) = 1
        /\ Len(call[p].written[1]) > 4

IsBlock(tok) == tok.t \in {"json", "yaml"}

NotSpace(tok) == tok # SP

\* C8: the written text is the non-empty pieces in the order timestamp,
\* level, message, block, one space between neighbours and the newline last:
\* no space leads the line, follows another space or precedes the newline.
C8_SingleSpaces ==
    \A p \in Procs :
        (pc[p] = "done" /\ Len(call[p].written) = 1) =>
            LET T == call[p].written[1]
                h == HandlerOf(p)
                r == call[p].rec
                pieces == TimestampPiece(h, r) \o LevelPiece(h, r) \o MessagePiece(h, r)
                unspaced == SelectSeq(T, NotSpace)
            IN /\ T[Len(T)] = NL
               /\ T[1] # SP
               /\ \A i \in 1..(Len(T) - 1) : ~(T[i] = SP /\ T[i + 1] = SP)
               /\ Len(T) >= 2 => T[Len(T) - 1] # SP
               /\ Len(unspaced) > Len(pieces)
               /\ SubSeq(unspaced, 1, Len(pieces)) = pieces
               /\ \A i \in (Len(pieces) + 1)..(Len(unspaced) - 1) :
                      \E j \in (Len(pieces) + 1)..(Len(unspaced) - 1) : IsBlock(unspaced[j])

\* C9: a rendered line holds an attribute block exactly if the option
\* output-empty-attrs is on or the record yields an attribute through the
\* inner handler; a block for no attributes is the empty structure.
C9_BlockIffOptionOrAttrs ==
    \A p \in Procs :
        (pc[p] \in {"write", "writing", "done"} /\ call[p].err \in {"", "write"}) =>
            LET h == HandlerOf(p)
                block == SelectSeq(call[p].out, IsBlock)
            IN /\ Len(block) <= 1
               /\ Len(block) = 1 <=> (h.outputEmptyAttrs \/ OwnDoc(p) # <<>>)
               /\ (Len(block) = 1 /\ OwnDoc(p) = <<>>) =>
                      block[1] = [t |-> h.encoder, v |-> "", n |-> 0, m |-> <<>>]

\* the empty block of a record without attributes, in YAML
C9_Witness ==
    \E p \in Procs :
        /\ pc[p] = "done" /\ call[p].err = ""
        /\ HandlerOf(p).encoder = YAML
        /\ call[p].rec.attrs = <<>> /\ OwnDoc(p) = <<>>
        /\ \E i \in 1..Len(call[p].out) : IsBlock(call[p].out[i])

\* C10: the members of the rendered block are the bound attributes and then
\* the call's attributes, in the order given, repeated keys included.
C10_InsertionOrder ==
    \A p \in Procs :
        (pc[p] \in {"write", "writing", "done"} /\ call[p].err \in {"", "write"}) =>
            \A i \in 1..Len(call[p].out) :
                IsBlock(call[p].out[i]) => call[p].out[i].m = OwnDoc(p)

(***************************************************************************)
(* What slog's handler contract asks of the output, computed from the      *)
(* derivation calls alone.                                                 *)
(***************************************************************************)
RECURSIVE ActiveGroups(_)
ActiveGroups(ops) ==
    IF ops = <<>> THEN <<>>
    ELSE LET rest == ActiveGroups(SubSeq(ops, 1, Len(ops) - 1))
             last == ops[Len(ops)]
         IN IF last.op = "group" THEN Append(rest, last.name) ELSE rest

RECURSIVE ExpectedBound(_)
ExpectedBound(ops) ==
    IF ops = <<>> THEN <<>>
    ELSE LET before == SubSeq(ops, 1, Len(ops) - 1)
             last == ops[Len(ops)]
         IN ExpectedBound(before)
              \o (IF last.op = "attrs" THEN Flatten(ActiveGroups(before), last.attrs)
                   ELSE <<>>)

HasCallKey(e) == e.key \in CallKeys

HasBoundKey(e) == e.key \in BoundKeys

HasTraceKey(e) == e.key \in TraceKeys

\* C1: with a valid span, trace_id and span_id are written in the top-level
\* group "otel" and nowhere else, whatever groups and attributes the handler
\* was derived with.
C1_TraceAtTopLevel ==
    (ocall.done /\ IsValid(ocall.sc)) =>
        /\ \E i \in 1..Len(ocall.out) :
              ocall.out[i] = [path |-> <<"otel">>, key |-> "trace_id", val |-> ocall.sc.tid]
        /\ \E i \in 1..Len(ocall.out) :
              ocall.out[i] = [path |-> <<"otel">>, key |-> "span_id", val |-> ocall.sc.sid]
        /\ \A i \in 1..Len(ocall.out) :
              HasTraceKey(ocall.out[i]) => ocall.out[i].path = <<"otel">>

\* C2: through a handler derived with at least one WithGroup, the call's
\* attributes are written under exactly the chain of entered groups, all of
\* them and in order, with a valid span and on the pass-through path.
C2_CallAttrsUnderGroupChain ==
    (/\ ocall.done
     /\ Len(ActiveGroups(ocall.ops)) >= 1
     /\ (IsValid(ocall.sc) \/ Len(ocall.h.preAttrs) = 0)) =>
        SelectSeq(ocall.out, HasCallKey) = Flatten(ActiveGroups(ocall.ops), ocall.attrs)

\* C3: every attribute bound with WithAttrs is written exactly once, under
\* the chain of groups that was active when it was bound.
C3_BoundAttrsUnderBindChain ==
    ocall.done => SelectSeq(ocall.out, HasBoundKey) = ExpectedBound(ocall.ops)

\* C4: without a valid span (none, or an all-zero one) nothing written
\* carries a trace_id or span_id, for every derived handler.
C4_NoTraceWithoutValidSpan ==
    (ocall.done /\ ~IsValid(ocall.sc)) =>
        \A i \in 1..Len(ocall.out) :
            /\ ~HasTraceKey(ocall.out[i])
            /\ \A j \in 1..Len(ocall.out[i].path) : ocall.out[i].path[j] # "otel"

\* an invalid span on a handler with bound attributes and two groups, so
\* that Handle rebuilds the record
C4_Witness ==
    /\ ocall.done
    /\ ocall.sc.has /\ ~IsValid(ocall.sc)
    /\ Len(ocall.h.preAttrs) > 0
    /\ Len(ocall.h.groups) >= 2
    /\ Len(ocall.attrs) > 0
    /\ Len(ocall.out) > 1

(***************************************************************************)
(* The derivation family of a pretty handler.                              *)
(***************************************************************************)
\* the configuration and the shared state of two handlers are the same
SameFamily(h, root) ==
    /\ h.writer = root.writer
    /\ h.encoder = root.encoder
    /\ h.colorize = root.colorize
    /\ h.outputEmptyAttrs = root.outputEmptyAttrs
    /\ h.replaceAttrFunc = root.replaceAttrFunc
    /\ h.buffer = root.buffer
    /\ h.mutex = root.mutex

LevelCodes(out) ==
    {out[i - 1].n : i \in {j \in 2..Len(out) : out[j].t = "level" /\ out[j - 1].t = "esc"}}

\* Handle has assembled the line of a record whose level text is printed in
\* colour
LevelColoured(p) ==
    /\ pc[p] \in {"write", "writing", "done"}
    /\ call[p].err \in {"", "write"}
    /\ HandlerOf(p).colorize
    /\ Kept(HandlerOf(p).replaceAttrFunc, LevelKey)

NamedLevels == {LevelDebug, LevelInfo, LevelWarn, LevelError}

\* the colour of a named level
NamedBand(n) ==
    CASE n = LevelDebug -> lightGray
      [] n = LevelInfo -> cyan
      [] n = LevelWarn -> lightYellow
      [] n = LevelError -> lightRed

BetweenNamed(level) ==
    /\ level \notin NamedLevels
    /\ level > LevelDebug
    /\ level < LevelError

NearestNamedAtOrBelow(level) ==
    CHOOSE n \in NamedLevels :
        /\ n <= level
        /\ \A m \in NamedLevels : m <= level => m <= n

\* the six bands, by threshold
SixBands(level) ==
    CASE level <= LevelDebug -> lightGray
      [] level > LevelDebug /\ level <= LevelInfo -> cyan
      [] level > LevelInfo /\ level < LevelWarn -> lightBlue
      [] level >= LevelWarn /\ level < LevelError -> lightYellow
      [] level = LevelError -> lightRed
      [] level > LevelError -> lightMagenta

\* C12 as stated: the level text has exactly one colour, the colour of its
\* threshold band, and a custom level strictly between two named levels has
\* the colour of the nearest named level at or below it.
C12_NearestLowerNamedBand ==
    \A p \in procs :
        LevelColoured(p) =>
            LET level == call[p].rec.level IN
            /\ LevelCodes(call[p].out) = {SixBands(level)}
            /\ BetweenNamed(level) =>
                   LevelCodes(call[p].out) = {NamedBand(NearestNamedAtOrBelow(level))}

\* C12 amended: the level text has exactly one colour, the colour of its
\* threshold band; a custom level strictly between debug and info has info's
\* colour, one strictly between info and warn has a colour of its own that
\* no named level has, and one strictly between warn and error has warn's
\* colour.
C12_ThresholdBands ==
    \A p \in procs :
        LevelColoured(p) =>
            LET level == call[p].rec.level
                codes == LevelCodes(call[p].out)
            IN
            /\ codes = {SixBands(level)}
            /\ (level > LevelDebug /\ level < LevelInfo) => codes = {NamedBand(LevelInfo)}
            /\ (level > LevelInfo /\ level < LevelWarn) =>
                   /\ codes = {lightBlue}
                   /\ \A n \in NamedLevels : NamedBand(n) \notin codes
            /\ (level > LevelWarn /\ level < LevelError) => codes = {NamedBand(LevelWarn)}

\* a coloured line of a custom level between info and warn, and one of a
\* level between debug and info
C12_Witness ==
    \E p \in procs :
        /\ LevelColoured(p)
        /\ BetweenNamed(call[p].rec.level)
        /\ call[p].rec.level < LevelWarn
        /\ pc[p] = "done"
        /\ call[p].written # <<>>

(***************************************************************************)
(* The errors Handle returns.                                              *)
(***************************************************************************)
\* C13: a Handle call in which the inner handler failed or wrote bytes that
\* do not decode returns an error, and a call on a handler whose encoder is
\* neither JSON nor YAML returns the unsupported-encoder error, whatever the
\* record's attributes and the output-empty-attrs flag are.
C13_EveryFailureSurfaces ==
    \A p \in procs :
        pc[p] = "done" =>
            /\ call[p].fault # "" => call[p].err # ""
            /\ (HandlerOf(p).encoder \notin {JSON, YAML} /\ call[p].fault = "")
                   => call[p].err = "unsupported"

\* C14: a Handle call on a handler whose writer is nil writes nothing and
\* reports no write error; it returns nil unless the inner encoding, the
\* decoding or the re-encoding of the record failed.
C14_NilWriterDiscards ==
    \A p \in procs :
        (pc[p] = "done" /\ HandlerOf(p).writer = "nil") =>
            /\ call[p].written = <<>>
            /\ call[p].err # "write"
            /\ (call[p].fault = "" /\ call[p].err \notin {"marshal", "unsupported"})
                   => call[p].err = ""

\* a record with attributes has been handled by a handler without a writer
C14_Witness ==
    \E p \in procs :
        /\ pc[p] = "done"
        /\ HandlerOf(p).writer = "nil"
        /\ call[p].err = ""
        /\ call[p].out # <<>>
        /\ call[p].rec.attrs # <<>>

(***************************************************************************)
(* Termination of Handle.                                                  *)
(***************************************************************************)
\* C15: under the fair scheduler every Handle call that has been entered on
\* a handler of the family returns, and a goroutine that holds the shared
\* lock releases it.
C15_HandleReturns ==
    \A p \in Procs :
        /\ (pc[p] = "lock") ~> (pc[p] = "done")
        /\ (mutex[1] = p) ~> (mutex[1] # p)

\* one goroutine waits for the lock while the other holds it in a call that
\* is about to return an error
C15_Witness ==
    \E p, q \in procs :
        /\ pc[p] = "lock"
        /\ pc[q] = "deferred"
        /\ call[q].err # ""
        /\ mutex[1] = q
        /\ call[p].h # call[q].h

(***************************************************************************)
(* The writes of a family to its destination writer.                       *)
(***************************************************************************)
\* between the call of io.WriteString and its return
InSinkWrite(p) == pc[p] = "writing"

\* C16: two goroutines that log through handlers of one family are never
\* both inside the write of their line to the destination writer.
C16_SinkWritesExclusive ==
    \A p, q \in procs :
        (p # q /\ HandlerOf(p).mutex = HandlerOf(q).mutex)
            => ~(InSinkWrite(p) /\ InSinkWrite(q))

(***************************************************************************)
(* The options of pretty.StackdriverHandler.                                       *)
(***************************************************************************)
\* what a call of a flag option asks for: the flag set when it is called
\* without arguments, and its last argument otherwise
Asked(opt) == IF opt.x = <<>> THEN TRUE ELSE opt.x[Len(opt.x)]

\* the flag after the options, applied in the order given
RECURSIVE FlagAfter(_, _, _)
FlagAfter(name, flag, opts) ==
    IF opts = <<>> THEN flag
    ELSE FlagAfter(name, IF Head(opts).name = name THEN Asked(Head(opts)) ELSE flag, Tail(opts))

HasEscape(out) == \E i \in 1..Len(out) : out[i].t = "esc"

\* C17: the handler StackdriverHandler builds has colour enabled when the last
\* WithColor option of the call asks for it, WithColor() without arguments
\* included, and outputs empty attributes when the last WithOutputEmptyAttrs
\* option asks for it, WithOutputEmptyAttrs() included; the lines it writes
\* are coloured, and carry the block of a record without attributes,
\* accordingly.
C17_OptionsTakeEffect ==
    LET color == FlagAfter("WithColor", FALSE, options)
        empty == FlagAfter("WithOutputEmptyAttrs", FALSE, options)
    IN
    /\ hs[1].colorize = color
    /\ hs[1].outputEmptyAttrs = empty
    /\ \A p \in procs :
          (pc[p] = "done" /\ call[p].err = "" /\ call[p].h = 1 /\ call[p].out # <<>>) =>
              /\ HasEscape(call[p].out) = color
              /\ call[p].rec.attrs = <<>> =>
                     ((\E i \in 1..Len(call[p].out) : IsBlock(call[p].out[i])) = empty)

(***************************************************************************)
(* The request-scoped logger of httplogger.RequestScoped.                  *)
(***************************************************************************)
\* the values of the attributes with this key that are bound to a logger
BoundValues(logger, key) ==
    LET HasKey(e) == e.key = key
        at == SelectSeq(logger.pre, HasKey)
    IN [i \in 1..Len(at) |-> at[i].val]

\* the request came with an X-Request-ID header that is not empty
HasInboundID(sent) == sent.rid # <<>> /\ sent.rid[1] # <<>>

\* C18: the logger of every request served has one request.id attribute: the
\* value of the inbound X-Request-ID header when the request has one that is
\* not empty, and otherwise the identifier generated last, which differs
\* from every identifier generated before; the next handler sees the headers
\* the request came with.
C18_RequestIDFromHeaderOrNew ==
    \A i \in 1..Len(served) :
        LET s == served[i]
            ids == BoundValues(s.logger, "request.id")
        IN /\ Len(ids) = 1
           /\ IF HasInboundID(s.r.sent)
                THEN ids[1] = s.r.sent.rid[1]
                ELSE /\ Len(generated) > 0
                     /\ ids[1] = generated[Len(generated)]
                     /\ \A j \in 1..(Len(generated) - 1) : generated[j] # ids[1]
           /\ s.next.Header = HeaderOf(s.r.sent)

\* a request with an identifier of its own has been served after one
\* without
C18_Witness ==
    /\ Len(served) = 1
    /\ HasInboundID(served[1].r.sent)
    /\ Len(generated) > 0

\* C19: the logger of every request served has the trace_id and span_id
\* attributes of the request's span when AddTrace is set and the span
\* context is valid, and has neither attribute otherwise.
C19_TraceIffEnabledAndValid ==
    \A i \in 1..Len(served) :
        LET s == served[i]
            tids == BoundValues(s.logger, "trace_id")
            sids == BoundValues(s.logger, "span_id")
        IN IF cfg.AddTrace /\ IsValid(s.r.ctx)
             THEN tids = << <<s.r.ctx.tid>> >> /\ sids = << <<s.r.ctx.sid>> >>
             ELSE tids = <<>> /\ sids = <<>>

\* with AddTrace set, a request whose context has a span with a zero span
\* id has been served
C19_Witness ==
    /\ cfg.AddTrace
    /\ Len(served) = 1
    /\ served[1].r.ctx.has
    /\ ~IsValid(served[1].r.ctx)
    /\ served[1].r.ctx.tid # ZeroID

\* the values of the attributes with this key in a logged record
LoggedValues(logged, key) ==
    LET HasKey(e) == e.key = key
        at == SelectSeq(logged, HasKey)
    IN {at[i].val : i \in 1..Len(at)}

\* the client addresses the claimed precedence allows: the for value of the
\* Forwarded header, or else the address of X-Real-IP or the first address
\* of X-Forwarded-For, or else the address of RemoteAddr
ClientByPrecedence(sent) ==
    IF sent.fwd # <<>> /\ sent.fwd[1].for # <<>> THEN {sent.fwd[1].for[1].host}
    ELSE IF sent.xri # <<>> \/ sent.xff # <<>>
      THEN {sent.xri[i].host : i \in 1..Len(sent.xri)} \cup {sent.xff[i].host : i \in {1} \cap DOMAIN sent.xff}
    ELSE {sent.remote.host}

SameName(a, b) ==
    \E names \in {{"X-Request-Id", "X-Request-ID", "x-request-id"},
                   {"Forwarded", "FORWARDED", "forwarded"},
                   {"X-Forwarded-For", "x-forwarded-for"},
                   {"X-Real-Ip", "X-Real-IP", "x-real-ip"}} : a \in names /\ b \in names

\* the key of the attribute of a header
HeaderKey(h) ==
    CASE SameName(h, "forwarded") -> "http.request.header.forwarded"
      [] SameName(h, "x-forwarded-for") -> "http.request.header.x-forwarded-for"
      [] SameName(h, "x-real-ip") -> "http.request.header.x-real-ip"
      [] SameName(h, "x-request-id") -> "http.request.header.x-request-id"

Excluded(h) == \E j \in 1..Len(cfg.ExcludeHeaders) : SameName(cfg.ExcludeHeaders[j], h)

\* C21: in every logged request, each header of the request has its
\* http.request.header.<lowercase name> attribute if and only if no entry
\* of the exclusion list equals the header's name ignoring letter case.
C21_HeaderAttrIffNotExcluded ==
    \A i \in 1..Len(served) :
        cfg.LogRequest =>
            \A h \in DOMAIN served[i].r.Header :
                (LoggedValues(served[i].logged, HeaderKey(h)) # {}) <=> ~Excluded(h)

\* a logged request came with a Forwarded header, excluded under the name
\* FORWARDED, and with an X-Real-IP header, which is not excluded
C21_Witness ==
    /\ cfg.LogRequest
    /\ cfg.ExcludeHeaders = <<"x-forwarded-for", "FORWARDED">>
    /\ Len(served) = 1
    /\ {"Forwarded", "X-Forwarded-For", "X-Real-Ip"} \subseteq DOMAIN served[1].r.Header
    /\ LoggedValues(served[1].logged, "http.request.header.forwarded") = {}
    /\ LoggedValues(served[1].logged, "http.request.header.x-real-ip") # {}

(***************************************************************************)
(* httplogger.RequestScoped under concurrent requests.                     *)
(***************************************************************************)
\* the handler of the request of goroutine g has been derived
Derived(g) == reqs[g].pc \in {"publish", "next", "done"}

\* the attributes that come from the request of goroutine g alone
OwnAttrs(g) ==
    LET Top(k, v) == [path |-> <<>>, key |-> k, val |-> v]
    IN <<Top("request.id", reqs[g].requestID)>>
       \o (IF cfg.AddTrace /\ IsValid(reqs[g].r.ctx)
             THEN <<Top("trace_id", <<reqs[g].r.ctx.tid>>),
                    Top("span_id", <<reqs[g].r.ctx.sid>>)>>
             ELSE <<>>)

\* the identifier of the request of goroutine g is the one it came with, or
\* one that no other request has
OwnID(g) ==
    IF HasInboundID(reqs[g].r.sent) THEN reqs[g].requestID = reqs[g].r.sent.rid[1]
    ELSE \A o \in DOMAIN reqs \ {g} :
            (reqs[o].pc # "start" /\ ~HasInboundID(reqs[o].r.sent)) =>
                reqs[o].requestID # reqs[g].requestID

\* a step changes the locals of one goroutine at most, and leaves the
\* Config and the base handler alone
OwnLocalsOnly ==
    /\ cfg' = cfg
    /\ handler' = handler
    /\ \A g, o \in DOMAIN reqs : (reqs'[g] # reqs[g] /\ reqs'[o] # reqs[o]) => g = o

\* C22: in every interleaving of two concurrent requests, the handler of
\* each request is the base handler with the attributes of that request
\* alone, no step writes the Config, the base handler or the locals of
\* another request, and the next handler is called once per request, after
\* the logger is published, with the context whose logger is the request's.
C22_RequestsShareNothing ==
    /\ [](\A g \in DOMAIN reqs :
            /\ Derived(g) => /\ reqs[g].reqHandler = [groups |-> <<>>, pre |-> OwnAttrs(g)]
                             /\ OwnID(g)
            /\ IF reqs[g].pc = "done"
                 THEN /\ Len(reqs[g].next) = 1
                      /\ reqs[g].next[1].logger = SlogNew(reqs[g].reqHandler)
                 ELSE reqs[g].next = <<>>)
    /\ [][OwnLocalsOnly]_vars

\* both requests are done; one came with a valid span and none with an
\* identifier, and the middleware adds trace attributes
C22_Witness ==
    /\ reqs # <<>>
    /\ cfg.AddTrace
    /\ \A g \in DOMAIN reqs : reqs[g].pc = "done" /\ ~HasInboundID(reqs[g].r.sent)
    /\ IsValid(reqs[1].r.ctx) /\ ~IsValid(reqs[2].r.ctx)

(***************************************************************************)
(* slogctx.WithLogger and slogctx.GetLogger.                               *)
(***************************************************************************)
HoldsLogger(ctx) == \E i \in 1..Len(ctx.values) : ctx.values[i].key = "loggerKey"

\* what holds of a WithLogger call on a context that is not nil: the child
\* yields the logger just added, whatever the parent holds, and the parent
\* yields what it yielded before, the default logger if it holds none
NestedLookup ==
    /\ ~res.panicked
    /\ res.child = arg.logger
    /\ res.after = res.before
    /\ ~HoldsLogger(arg.ctx) => res.before = SlogDefault

\* C23 as claimed: for every context, nil included, GetLogger on
\* WithLogger(ctx, l) returns l, the parent is left as it was, and the
\* parent yields the default logger when it is nil or holds no logger.
C23_LookupForEveryContext ==
    arg.fn = "WithLogger" => NestedLookup

\* C23: for every context that is not nil, GetLogger on WithLogger(ctx, l)
\* returns l, the parent is left as it was and yields the default logger
\* when it holds no logger; on a nil context WithLogger panics, and
\* GetLogger returns the default logger.
C23_LookupForNonNilContext ==
    arg.fn = "WithLogger" =>
        IF arg.ctx.nil
          THEN res.panicked /\ res.before = SlogDefault /\ res.after = SlogDefault
          ELSE NestedLookup

\* WithLogger was called on a context whose innermost logger is another
\* one, under a value of another key
C23_Witness ==
    /\ arg.fn = "WithLogger"
    /\ Len(arg.ctx.values) = 2
    /\ arg.ctx.values[1].key = "loggerKey"
    /\ arg.ctx.values[2].key = "otherKey"
    /\ arg.ctx.values[1].val # arg.logger
    /\ res.child = arg.logger

(***************************************************************************)
(* The loggers of stackdriver.Logging.                                     *)
(***************************************************************************)
\* the attributes bound to a logger without those of StackdriverHandler, which
\* come first, and without the request identifier
RequestBound(logger) ==
    LET OfRequest(e) == e.path # <<"serviceContext">> /\ e.key # "requestId"
    IN SelectSeq(logger.pre, OfRequest)

\* the trace and httpRequest attributes of the request served i-th
OwnBound(i) ==
    LET r == served[i].r
        Trace(k, v) == [path |-> <<>>, key |-> k, val |-> v]
        Http(k, v) == [path |-> <<"httpRequest">>, key |-> k, val |-> v]
        trace == IF cfg.AddTrace /\ IsValid(r.ctx)
                   THEN {<<Trace("logging.googleapis.com/trace",
                                 <<"projects/", "proj", "/traces/", r.ctx.tid>>),
                           Trace("logging.googleapis.com/spanId", <<r.ctx.sid>>),
                           Trace("logging.googleapis.com/trace_sampled", b)>> :
                            b \in {<<"true">>, <<"false">>}}
                   ELSE {<<>>}
        http == IF cfg.AddHTTPRequest
                  THEN <<Http("requestMethod", <<"GET">>), Http("requestUrl", <<"/">>),
                         Http("protocol", <<"HTTP", "/", "1.1">>),
                         Http("remoteIp", <<"127.0.0.1", ":", "12345">>),
                         Http("userAgent", <<>>), Http("referer", <<>>)>>
                  ELSE <<>>
    IN {t \o http : t \in trace}

\* C24: for any sequence of requests through one middleware, the logger of
\* each request carries, after the attributes of the handler built at
\* construction, the trace and httpRequest attributes of that request and
\* of no other, and the handler variable of the middleware stays the one
\* built at construction.
C24_RequestScopedHandlers ==
    (served # <<>> /\ "version" \in DOMAIN cfg) =>
        /\ handler = StackdriverHandler
        /\ \A i \in 1..Len(served) :
              /\ SubSeq(served[i].logger.pre, 1, Len(StackdriverHandler.pre)) = StackdriverHandler.pre
              /\ RequestBound(served[i].logger) \in OwnBound(i)

(***************************************************************************)
(* stackdriver.Handler.Handle.                                             *)
(***************************************************************************)
\* the attribute that marks a record as an error-reporting event
ErrorTypeAttr == [key |-> "@type", leaf |-> TRUE, val |-> <<"type.googleapis.com/google.devtools.clouderrorreporting.v1beta1.ReportedErrorEvent">>, attrs |-> <<>>]

\* C25: the record that Handle passes to the wrapped handler is the
\* caller's record with the @type attribute added after its attributes
\* when the level is at or above the error level, and the caller's record
\* as it is otherwise; an error of the wrapped handler is returned wrapped,
\* and no error is returned when the wrapped handler returns none.
C25_ErrorTypeIffAtOrAboveError ==
    arg.fn = "Handle" =>
        /\ IF arg.r.level >= 8
             THEN res.passed = [arg.r EXCEPT !.attrs = arg.r.attrs \o <<ErrorTypeAttr>>]
             ELSE res.passed = arg.r
        /\ IF arg.innerErr = <<>>
             THEN res.err = <<>>
             ELSE /\ Len(res.err) = 1 + Len(arg.innerErr)
                  /\ SubSeq(res.err, 2, Len(res.err)) = arg.innerErr

\* a record at the error level itself was handled, and the wrapped handler
\* failed
C25_Witness ==
    /\ arg.fn = "Handle"
    /\ arg.r.level = LevelError
    /\ arg.innerErr # <<>>
    /\ res.err # <<>>
    /\ Len(res.passed.attrs) = Len(arg.r.attrs) + 1

(***************************************************************************)
(* stackdriver.ReplaceLogLevel and stackdriver.ParseLogLevel.              *)
(***************************************************************************)
\* the eight declared levels and their names
DeclaredName(l) ==
    CASE l = -4 -> <<"DEBUG">> [] l = 0 -> <<"INFO">> [] l = 2 -> <<"NOTICE">>
      [] l = 4 -> <<"WARNING">> [] l = 8 -> <<"ERROR">> [] l = 10 -> <<"CRITICAL">>
      [] l = 12 -> <<"ALERT">> [] l = 14 -> <<"EMERGENCY">> [] OTHER -> <<>>

\* the hook was called with the level attribute, and ParseLogLevel with the
\* severity it wrote
Rendered == arg.fn = "ReplaceLogLevel" /\ arg.a.key = "level" /\ arg.value = res.a.val

\* C26: the level is written under the key severity; a declared level is
\* written as its name, and ParseLogLevel of that text is the level; every
\* other level is written as a named level and the offset from it.
C26_SeverityNamesRoundTrip ==
    Rendered =>
        /\ res.a.key = "severity"
        /\ IF DeclaredName(arg.a.val) # <<>>
             THEN res.a.val = DeclaredName(arg.a.val) /\ res.parsed = arg.a.val
             ELSE Len(res.a.val) = 2

(***************************************************************************)
(* httplogger.ParseForwarded.                                              *)
(***************************************************************************)
\* the field of a ForwardedElement that a parameter key names, if any
FieldOf(key) ==
    CASE key \in {"by", "By", "BY"} -> "By"
      [] key \in {"for", "For", "FOR"} -> "For"
      [] key \in {"host", "Host", "HOST"} -> "Host"
      [] key \in {"proto", "Proto", "PROTO"} -> "Proto"
      [] OTHER -> ""

\* the element the field grammar gives for a list of parameters: each
\* known key with an equals sign sets its field to the value, without the
\* quotes and the spaces around it
RECURSIVE ElementOf(_, _)
ElementOf(elem, params) ==
    IF params = <<>> THEN elem
    ELSE LET p == Head(params)
         IN ElementOf(IF p.eq /\ FieldOf(p.key) # ""
                        THEN [f \in DOMAIN elem |-> IF f = FieldOf(p.key) THEN p.val ELSE elem[f]]
                        ELSE elem,
                      Tail(params))

\* C27: ParseForwarded returns one element for each element of the header,
\* in the header's order; each has the values of its by, for, host and
\* proto parameters, whatever the case of the key, without surrounding
\* spaces and enclosing quotes, a quoted value being taken whole, and
\* nothing from parameters without an equals sign or with another key.
C27_ElementsOfFieldGrammar ==
    arg.fn = "ParseForwarded" =>
        /\ Len(res.elements) = Len(arg.elements)
        /\ \A i \in 1..Len(arg.elements) :
              i <= Len(res.elements) =>
                  res.elements[i] = ElementOf([By |-> <<>>, For |-> <<>>, Host |-> <<>>, Proto |-> <<>>],
                                              arg.elements[i])

(***************************************************************************)
(* The handlers derived from one otel.Handler.                             *)
(***************************************************************************)
\* the handler that a derivation path gives, from Wrap(base)
RECURSIVE Derive(_, _)
Derive(h, path) ==
    IF path = <<>> THEN h
    ELSE Derive(IF Head(path).op = "attrs" THEN WithAttrsResult(h, Head(path).attrs)
                ELSE WithGroupResult(h, Head(path).name),
                Tail(path))

\* a step leaves every handler of the family and every array as it is
NothingRewritten ==
    /\ \A i \in 1..Len(family) : i <= Len(family') /\ family'[i] = family[i]
    /\ \A a \in 1..Len(heap) : a <= Len(heap') /\ heap'[a] = heap[a]

\* C28: whatever handlers are derived from whatever handlers of a family,
\* each handler's preAttrs, groups and wrapped handler are those its own
\* derivation path gives, a record it handles comes out as that path
\* alone determines, and no derivation rewrites a handler or an array that
\* exists already.
C28_SiblingsIndependent ==
    /\ [](\A i \in 1..Len(family) :
              View(family[i].h) = Derive(Wrap(BaseHandler), family[i].path))
    /\ [](ocall.done => ocall.out = HandleOutput(Derive(Wrap(BaseHandler), ocall.ops),
                                                 ocall.sc, ocall.attrs))
    /\ [][NothingRewritten]_vars

\* a handler has two children, one by WithAttrs and one by WithGroup, and
\* the parent has handled a record after both were derived
C28_Witness ==
    /\ Len(family) = MaxFamily
    /\ \E i, j, k \in 1..Len(family) :
          /\ Len(family[i].path) = 1
          /\ Len(family[j].path) = 2 /\ family[j].path[2].op = "attrs"
          /\ Len(family[k].path) = 2 /\ family[k].path[2].op = "group"
          /\ SubSeq(family[j].path, 1, 1) = family[i].path
          /\ SubSeq(family[k].path, 1, 1) = family[i].path
          /\ ocall.done /\ ocall.ops = family[i].path

(***************************************************************************)
(* The attributes that survive suppressDefaults.                           *)
(***************************************************************************)
\* the mapping has the key under the chain of groups
RECURSIVE HasAt(_, _, _)
HasAt(attrs, groups, key) ==
    IF groups = <<>> THEN key \in DOMAIN attrs
    ELSE /\ Head(groups) \in DOMAIN attrs
         /\ ~attrs[Head(groups)].leaf
         /\ HasAt(attrs[Head(groups)].sub, Tail(groups), key)

\* C29: when the handler has no ReplaceAttr function of the caller's, every
\* attribute of a record, whatever its key, is in the mapping that
\* computeAttrs returns, under the groups opened on the handler.
C29_CallerAttrsSurvive ==
    \A p \in procs :
        (AfterUnmarshal(p) /\ call[p].err = "" /\ HandlerOf(p).replaceAttrFunc.nil) =>
            \A i \in 1..Len(call[p].rec.attrs) :
                HasAt(call[p].attrs, HandlerOf(p).handler.groups, call[p].rec.attrs[i].key)

====
